---- MODULE Spec2Model ----
(***************************************************************************)
(* A model of trading-rs: the incremental indicators (src/indicators.rs)   *)
(* and the signal / position engine of Trader (src/trading.rs).            *)
(*                                                                         *)
(* f64 is modelled as fixed point.  A finite value is an integer number of *)
(* resolution units, Scale units to 1.0; products and quotients are        *)
(* rounded down to the unit; NaN, +inf and -inf are three integers outside *)
(* the finite range, with the arithmetic and the comparisons of IEEE 754.  *)
(* Option<T> is a sequence: None is <<>>, Some(x) is <<x>>.                *)
(***************************************************************************)
EXTENDS Integers, Sequences, FiniteSets, TLC

(***************************************************************************)
(* f64                                                                     *)
(***************************************************************************)
Scale  == 1000
F64Max == 1000000000
F64Min == -1000000000
PosInf == F64Max + 1
NegInf == F64Min - 1
NaN    == F64Max + 2

\* `n as f64`, and an f64 literal with an integer value
FromInt(n) == n * Scale

IsNan(x)    == x = NaN
IsFinite(x) == x >= F64Min /\ x <= F64Max

None    == <<>>
Some(x) == <<x>>
IsSome(o) == Len(o) = 1
Unwrap(o) == o[1]

FNeg(a) ==
  IF IsNan(a) THEN NaN
  ELSE IF a = PosInf THEN NegInf
  ELSE IF a = NegInf THEN PosInf
  ELSE 0 - a

FAdd(a, b) ==
  IF IsNan(a) \/ IsNan(b) THEN NaN
  ELSE IF a = PosInf THEN (IF b = NegInf THEN NaN ELSE PosInf)
  ELSE IF a = NegInf THEN (IF b = PosInf THEN NaN ELSE NegInf)
  ELSE IF b = PosInf \/ b = NegInf THEN b
  ELSE a + b

FSub(a, b) == FAdd(a, FNeg(b))

FSign(a) == IF a > 0 THEN 1 ELSE IF a < 0 THEN 0 - 1 ELSE 0

\* a * b / d rounded down, for d > 0, computed without forming a * b
MulDiv(a, b, d) == (a \div d) * b + ((a % d) * b) \div d

FMul(a, b) ==
  IF IsNan(a) \/ IsNan(b) THEN NaN
  ELSE IF IsFinite(a) /\ IsFinite(b) THEN MulDiv(a, b, Scale)
  ELSE IF a = 0 \/ b = 0 THEN NaN
  ELSE IF FSign(a) * FSign(b) > 0 THEN PosInf ELSE NegInf

FDiv(a, b) ==
  IF IsNan(a) \/ IsNan(b) THEN NaN
  ELSE IF IsFinite(a) /\ IsFinite(b)
       THEN IF b = 0
            THEN (IF a = 0 THEN NaN ELSE IF a > 0 THEN PosInf ELSE NegInf)
            ELSE IF b > 0 THEN MulDiv(a, Scale, b) ELSE MulDiv(0 - a, Scale, 0 - b)
  ELSE IF ~IsFinite(a) /\ ~IsFinite(b) THEN NaN
  ELSE IF IsFinite(a) THEN 0
  ELSE IF FSign(a) * FSign(b) > 0 THEN PosInf ELSE NegInf

\* the comparisons of f64: every comparison with NaN is false
FLt(a, b) == ~IsNan(a) /\ ~IsNan(b) /\ a < b
FGt(a, b) == ~IsNan(a) /\ ~IsNan(b) /\ a > b

\* f64::max and f64::min: the other operand when one is NaN
FMax(a, b) == IF IsNan(a) THEN b ELSE IF IsNan(b) THEN a ELSE IF a > b THEN a ELSE b
FMin(a, b) == IF IsNan(a) THEN b ELSE IF IsNan(b) THEN a ELSE IF a < b THEN a ELSE b

FAbs(a) == IF IsNan(a) THEN NaN ELSE IF a = NegInf THEN PosInf ELSE IF a < 0 THEN 0 - a ELSE a

\* the largest r in lo..hi with r * r <= x, given lo * lo <= x
RECURSIVE RootIn(_, _, _)
RootIn(lo, hi, x) ==
  IF lo >= hi THEN lo
  ELSE LET mid == (lo + hi + 1) \div 2
       IN  IF mid * mid <= x THEN RootIn(mid, hi, x) ELSE RootIn(lo, mid - 1, x)

FSqrt(a) ==
  IF IsNan(a) \/ a < 0 THEN NaN
  ELSE IF a = PosInf THEN PosInf
  ELSE RootIn(0, 46340, a * Scale)

\* iter().sum::<f64>() over a boxed slice indexed 0..n-1
RECURSIVE FSumTo(_, _)
FSumTo(data, n) == IF n = 0 THEN 0 ELSE FAdd(FSumTo(data, n - 1), data[n - 1])

(***************************************************************************)
(* Bounds of the checked instances                                         *)
(***************************************************************************)
MaxPeriod == 4
MaxSample == 3
MaxClose  == 4
MaxTail   == 3
FreeWarm  == 4

Periods == 1..MaxPeriod
\* ordinary samples: the values 0.0, 1.0, .. MaxSample.0
Samples == {FromInt(k) : k \in 0..MaxSample}

VARIABLES
  sma, smaWin,        \* an Sma and the last `period` samples fed to it
  sd, sdWin,          \* a StandardDeviation and the last `period` samples fed to it
  mx, mn, extWin,     \* a Maximum and a Minimum fed in lock step, and the last `period` samples
  td, tdWin,          \* a TdSeq and the last four candles fed to it
  tr,                 \* a Trader with the locals of its backtest / live loop
  obs,                \* the series being fed to it and what its evaluations produced
  ej,                 \* an error document and what Error::from_json made of it
  kp,                 \* a candle payload and what the two array parsers made of it
  hs,                 \* a Haystack and the scan running on it
  lv,                 \* the live loop, the task watching the keyboard and their channel
  ind,                \* an Ema, BollingerBand, Adx or StochRsi and the samples fed to it
  dec,                \* one evaluation of the replay loop and of the live loop side by side
  cf,                 \* the cache file, the exchange and the runs of get_required_data
  fd                  \* the live loop's candle requests and what it fed the indicators

smaVars == <<sma, smaWin>>
sdVars  == <<sd, sdWin>>
extVars == <<mx, mn, extWin>>
tdVars  == <<td, tdWin>>
trVars  == <<tr, obs>>
coreVars == <<smaVars, sdVars, extVars, tdVars, trVars>>
runVars == <<ind, dec, cf, fd>>
ioVars == <<ej, kp, hs, lv, runVars>>
vars == <<coreVars, ioVars>>

\* the last n samples of a feed history (all of it while shorter)
LastN(w, n) == IF Len(w) <= n THEN w ELSE SubSeq(w, Len(w) - n + 1, Len(w))

RECURSIVE SeqSum(_)
SeqSum(w) == IF w = <<>> THEN 0 ELSE w[1] + SeqSum(Tail(w))

RECURSIVE SeqSumSq(_)
SeqSumSq(w) == IF w = <<>> THEN 0 ELSE w[1] * w[1] + SeqSumSq(Tail(w))

SeqMax(w) == CHOOSE x \in {w[i] : i \in 1..Len(w)} : \A j \in 1..Len(w) : w[j] <= x
SeqMin(w) == CHOOSE x \in {w[i] : i \in 1..Len(w)} : \A j \in 1..Len(w) : w[j] >= x

(***************************************************************************)
(* Sma                                                                     *)
(***************************************************************************)
SmaNew(period) ==
  [period |-> period, data |-> [i \in 0..(period - 1) |-> NaN], index |-> 0, value |-> None]

SmaMean(data, period) == FDiv(FSumTo(data, period), FromInt(period))

\* mutant: the value is not computed on the feed that fills the buffer
SmaNextLate(s, v) ==
  LET d == [s.data EXCEPT ![s.index] = v]
      i == IF s.index < s.period - 1 THEN s.index + 1 ELSE 0
  IN  IF IsNan(s.data[s.index])
      THEN [s EXCEPT !.data = d, !.index = i]
      ELSE [s EXCEPT !.data = d, !.index = i, !.value = Some(SmaMean(d, s.period))]

SmaNext(s, v) ==
  LET d == [s.data EXCEPT ![s.index] = v]
  IN  IF IsNan(s.data[s.index])
      THEN IF s.index < s.period - 1
           THEN [s EXCEPT !.data = d, !.index = s.index + 1]
           ELSE [s EXCEPT !.data = d, !.value = Some(SmaMean(d, s.period)), !.index = 0]
      ELSE [s EXCEPT !.data = d, !.value = Some(SmaMean(d, s.period)),
                     !.index = IF s.index < s.period - 1 THEN s.index + 1 ELSE 0]

SmaGet(s) == s.value

(***************************************************************************)
(* StandardDeviation                                                       *)
(***************************************************************************)
StdNew(period) ==
  [period |-> period, index |-> 0, data |-> [i \in 0..(period - 1) |-> NaN], value |-> None]

RECURSIVE SqDevSumTo(_, _, _)
SqDevSumTo(data, mean, n) ==
  IF n = 0 THEN 0
  ELSE FAdd(FMul(FSub(data[n - 1], mean), FSub(data[n - 1], mean)),
            SqDevSumTo(data, mean, n - 1))

\* the root of the mean of the squared deviations from mean, for a divisor n
RootMeanSqDev(data, mean, period, n) ==
  FSqrt(FDiv(SqDevSumTo(data, mean, period), FromInt(n)))

\* mutant: the sample deviation, divisor period - 1
StdDevSample(data, period) ==
  RootMeanSqDev(data, FDiv(FSumTo(data, period), FromInt(period)), period, period - 1)

StdDev(data, period) ==
  RootMeanSqDev(data, FDiv(FSumTo(data, period), FromInt(period)), period, period)

StdNext(s, v) ==
  LET d == [s.data EXCEPT ![s.index] = v]
  IN  IF IsNan(s.data[s.index])
      THEN IF s.index < s.period - 1
           THEN [s EXCEPT !.data = d, !.index = s.index + 1]
           ELSE [s EXCEPT !.data = d, !.index = 0, !.value = Some(StdDev(d, s.period))]
      ELSE [s EXCEPT !.data = d,
                     !.index = IF s.index < s.period - 1 THEN s.index + 1
                               ELSE IF s.index = s.period - 1 THEN 0 ELSE s.index,
                     !.value = Some(StdDev(d, s.period))]

StdGet(s) == s.value

(***************************************************************************)
(* Maximum, Minimum                                                        *)
(***************************************************************************)
MaxNew(period) ==
  [period |-> period, max_index |-> 0, cur_index |-> 0,
   values |-> [i \in 0..(period - 1) |-> F64Min]]

\* the loop of Maximum::find_max_index from slot i on, with its running (max, index)
RECURSIVE MaxScan(_, _, _, _, _)
MaxScan(values, period, i, max, index) ==
  IF i = period THEN index
  ELSE IF FLt(max, values[i]) THEN MaxScan(values, period, i + 1, values[i], i)
  ELSE MaxScan(values, period, i + 1, max, index)

MaxFindMaxIndex(m, values) == MaxScan(values, m.period, 0, F64Min, 0)

\* mutant: no rescan when the slot of the current maximum is overwritten
MaxNextNoRescan(m, price) ==
  LET v == [m.values EXCEPT ![m.cur_index] = price]
  IN  [m EXCEPT !.values = v,
                !.max_index = IF FGt(price, v[m.max_index]) THEN m.cur_index ELSE m.max_index,
                !.cur_index = IF m.cur_index + 1 < m.period THEN m.cur_index + 1 ELSE 0]

MaxNext(m, price) ==
  LET v == [m.values EXCEPT ![m.cur_index] = price]
  IN  [m EXCEPT !.values = v,
                !.max_index = IF FGt(price, v[m.max_index]) THEN m.cur_index
                              ELSE IF m.max_index = m.cur_index THEN MaxFindMaxIndex(m, v)
                              ELSE m.max_index,
                !.cur_index = IF m.cur_index + 1 < m.period THEN m.cur_index + 1 ELSE 0]

MaxGet(m) == Some(m.values[m.max_index])

MinNew(period) ==
  [period |-> period, min_index |-> 0, cur_index |-> 0,
   values |-> [i \in 0..(period - 1) |-> F64Max]]

RECURSIVE MinScan(_, _, _, _, _)
MinScan(values, period, i, min, index) ==
  IF i = period THEN index
  ELSE IF FGt(min, values[i]) THEN MinScan(values, period, i + 1, values[i], i)
  ELSE MinScan(values, period, i + 1, min, index)

MinFindMaxIndex(m, values) == MinScan(values, m.period, 0, F64Max, 0)

MinNext(m, price) ==
  LET v == [m.values EXCEPT ![m.cur_index] = price]
  IN  [m EXCEPT !.values = v,
                !.min_index = IF FLt(price, v[m.min_index]) THEN m.cur_index
                              ELSE IF m.min_index = m.cur_index THEN MinFindMaxIndex(m, v)
                              ELSE m.min_index,
                !.cur_index = IF m.cur_index + 1 < m.period THEN m.cur_index + 1 ELSE 0]

MinGet(m) == Some(m.values[m.min_index])

(***************************************************************************)
(* TdSeq                                                                   *)
(***************************************************************************)
TdNew ==
  [highs |-> [i \in 0..4 |-> NaN], lows |-> [i \in 0..4 |-> NaN],
   closes |-> [i \in 0..4 |-> NaN], index |-> 0,
   buy_setup_count |-> 0, sell_setup_count |-> 0, perfect |-> FALSE,
   support |-> 0, resistance |-> 0]

\* mutant: the slot of the previous feed instead of the slot four feeds back
TdPrevIndexLast(index) == IF index >= 1 THEN index - 1 ELSE 4

TdPrevIndex(index) == IF index >= 4 THEN index - 4 ELSE index + 1

\* mutant: a completed setup is never reset
TdResetKeep(count) == count

TdResetAtNine(count) == IF count = 9 THEN 0 ELSE count

TdPerfectBuy(lows, prev, index) ==
  LET sixth   == lows[(prev + 1) % 5]
      seventh == lows[(prev + 2) % 5]
      eighth  == lows[(prev + 3) % 5]
      ninth   == lows[index]
  IN  (FLt(eighth, sixth) /\ FLt(eighth, seventh)) \/ (FLt(ninth, sixth) /\ FLt(ninth, seventh))

\* mutant: the four highs are read one slot too early
TdPerfectSellShifted(highs, prev, index) ==
  LET sixth   == highs[prev]
      seventh == highs[(prev + 1) % 5]
      eighth  == highs[(prev + 2) % 5]
      ninth   == highs[(prev + 3) % 5]
  IN  (FGt(eighth, sixth) /\ FGt(eighth, seventh)) \/ (FGt(ninth, sixth) /\ FGt(ninth, seventh))

TdPerfectSell(highs, prev, index) ==
  LET sixth   == highs[(prev + 1) % 5]
      seventh == highs[(prev + 2) % 5]
      eighth  == highs[(prev + 3) % 5]
      ninth   == highs[index]
  IN  (FGt(eighth, sixth) /\ FGt(eighth, seventh)) \/ (FGt(ninth, sixth) /\ FGt(ninth, seventh))

\* mutant: the flag is evaluated for a completed buy setup only
TdPerfectBuyOnly(t, buy, sell, highs, lows, prev) ==
  IF buy = 9 THEN TdPerfectBuy(lows, prev, t.index) ELSE t.perfect

TdPerfect(t, buy, sell, highs, lows, prev) ==
  LET p == IF buy = 9 THEN TdPerfectBuy(lows, prev, t.index) ELSE t.perfect
  IN  IF sell = 9 THEN TdPerfectSell(highs, prev, t.index) ELSE p

TdNext(t, high, low, close) ==
  LET c == [t.closes EXCEPT ![t.index] = close]
      h == [t.highs EXCEPT ![t.index] = high]
      l == [t.lows EXCEPT ![t.index] = low]
  IN  IF IsNan(t.closes[t.index]) /\ t.index # 4
      THEN [t EXCEPT !.closes = c, !.highs = h, !.lows = l, !.index = t.index + 1]
      ELSE LET prev == TdPrevIndex(t.index)
               b0   == TdResetAtNine(t.buy_setup_count)
               s0   == TdResetAtNine(t.sell_setup_count)
               down == FGt(c[prev], c[t.index])
               b1   == IF down THEN b0 + 1 ELSE 0
               s1   == IF down THEN 0 ELSE s0 + 1
           IN  [t EXCEPT !.closes = c, !.highs = h, !.lows = l,
                         !.buy_setup_count = b1,
                         !.sell_setup_count = s1,
                         \* the results of resistance.max(..) and support.min(..) are dropped
                         !.resistance = IF down /\ b0 = 0 THEN h[t.index] ELSE t.resistance,
                         !.support = IF ~down /\ s0 = 0 THEN l[t.index] ELSE t.support,
                         !.perfect = TdPerfect(t, b1, s1, h, l, prev),
                         !.index = IF t.index = 4 THEN 0 ELSE t.index + 1]

TdBuyPerfect(t)  == t.perfect /\ t.buy_setup_count = 9
TdSellPerfect(t) == t.perfect /\ t.sell_setup_count = 9

\* candles for TdSeq: a close, and a wick of one unit on both sides when the close is odd,
\* so that highs and lows are ordered differently from each other and from the closes
TdCandles ==
  {[high |-> c + (c % 2), low |-> c - (c % 2), close |-> c] : c \in 1..MaxClose}

(***************************************************************************)
(* Ema                                                                     *)
(***************************************************************************)
EmaNew(period) ==
  [period |-> period, index |-> 0, value |-> None, current |-> 0,
   alpha |-> FDiv(FromInt(2), FromInt(period + 1))]

EmaNewWithConstant(period, alpha) ==
  [period |-> period, index |-> 0, value |-> None, current |-> 0, alpha |-> alpha]

\* an Ema that publishes its running sum while it is still accumulating the seed
EmaNextEager(e, price) ==
  IF e.index < e.period - 1
  THEN [e EXCEPT !.current = FAdd(e.current, price), !.index = e.index + 1,
                 !.value = Some(FAdd(e.current, price))]
  ELSE IF e.index = e.period - 1
  THEN LET c == FDiv(FAdd(e.current, price), FromInt(e.period))
       IN  [e EXCEPT !.current = c, !.value = Some(c), !.index = e.index + 1]
  ELSE LET c == FAdd(e.current, FMul(e.alpha, FSub(price, e.current)))
       IN  [e EXCEPT !.current = c, !.value = Some(c)]

EmaNext(e, price) ==
  IF e.index < e.period - 1
  THEN [e EXCEPT !.current = FAdd(e.current, price), !.index = e.index + 1]
  ELSE IF e.index = e.period - 1
  THEN LET c == FDiv(FAdd(e.current, price), FromInt(e.period))
       IN  [e EXCEPT !.current = c, !.value = Some(c), !.index = e.index + 1]
  ELSE LET c == FAdd(e.current, FMul(e.alpha, FSub(price, e.current)))
       IN  [e EXCEPT !.current = c, !.value = Some(c)]

EmaGet(e) == e.value

(***************************************************************************)
(* Atr                                                                     *)
(***************************************************************************)
AtrNew(period) == [period |-> period, value |-> None, current |-> 0, index |-> 0]

\* mutant: the recurrence adds the true range to the average without weighting the average
AtrNextUnweighted(a, high, close_prev, low) ==
  LET true_range == FSub(FMax(high, close_prev), FMin(low, close_prev))
  IN  IF a.index < a.period - 1
      THEN [a EXCEPT !.current = FAdd(a.current, true_range), !.index = a.index + 1]
      ELSE LET c == FDiv(FAdd(a.current, true_range), FromInt(a.period))
           IN  IF a.index = a.period - 1
               THEN [a EXCEPT !.current = c, !.value = Some(c), !.index = a.index + 1]
               ELSE [a EXCEPT !.current = c, !.value = Some(c)]

AtrNext(a, high, close_prev, low) ==
  LET true_range == FSub(FMax(high, close_prev), FMin(low, close_prev))
  IN  IF a.index < a.period - 1
      THEN [a EXCEPT !.current = FAdd(a.current, true_range), !.index = a.index + 1]
      ELSE IF a.index = a.period - 1
      THEN LET c == FDiv(FAdd(a.current, true_range), FromInt(a.period))
           IN  [a EXCEPT !.current = c, !.value = Some(c), !.index = a.index + 1]
      ELSE LET c == FDiv(FAdd(FMul(a.current, FromInt(a.period - 1)), true_range),
                         FromInt(a.period))
           IN  [a EXCEPT !.current = c, !.value = Some(c)]

AtrGet(a) == a.value

(***************************************************************************)
(* Adx                                                                     *)
(***************************************************************************)
\* f64::is_sign_positive of a value that is not NaN (+0.0 is what x - x gives)
IsSignPositive(x) == x >= 0

AdxNew(period) ==
  [spdm |-> EmaNewWithConstant(period, FDiv(FromInt(1), FromInt(period))),
   smdm |-> EmaNewWithConstant(period, FDiv(FromInt(1), FromInt(period))),
   dx   |-> EmaNewWithConstant(period, FDiv(FromInt(1), FromInt(period))),
   atr  |-> AtrNew(period),
   value |-> None]

\* value / atr * 100
AdxDi(val, atr) == FMul(FDiv(val, atr), FromInt(100))

\* +DM and -DM of a candle against the previous one
Pdm(high, high_prev, low, low_prev) ==
  LET up_move   == FSub(high, high_prev)
      down_move == FSub(low_prev, low)
  IN  IF FGt(up_move, down_move) /\ IsSignPositive(up_move) THEN up_move ELSE 0

\* mutant: -DM also counts a down-move that only equals the up-move
MdmOnTies(high, high_prev, low, low_prev) ==
  LET up_move   == FSub(high, high_prev)
      down_move == FSub(low_prev, low)
  IN  IF ~FGt(up_move, down_move) /\ IsSignPositive(down_move) THEN down_move ELSE 0

Mdm(high, high_prev, low, low_prev) ==
  LET up_move   == FSub(high, high_prev)
      down_move == FSub(low_prev, low)
  IN  IF FLt(up_move, down_move) /\ IsSignPositive(down_move) THEN down_move ELSE 0

\* mutant: the outer average is fed from the first candle on, with zero while the
\* inner averages are not seeded
AdxFeedDxFromStart(a, spdm, smdm, atr) ==
  IF IsSome(EmaGet(spdm)) /\ IsSome(EmaGet(smdm)) /\ IsSome(AtrGet(atr))
  THEN LET pdi == AdxDi(Unwrap(EmaGet(spdm)), Unwrap(AtrGet(atr)))
           mdi == AdxDi(Unwrap(EmaGet(smdm)), Unwrap(AtrGet(atr)))
       IN  EmaNext(a.dx, FMul(FAbs(FDiv(FSub(pdi, mdi), FAdd(pdi, mdi))), FromInt(100)))
  ELSE EmaNext(a.dx, 0)

\* mutant: a feed whose oscillator value is NaN is skipped
AdxFeedDxSkipNan(a, spdm, smdm, atr) ==
  IF IsSome(EmaGet(spdm)) /\ IsSome(EmaGet(smdm)) /\ IsSome(AtrGet(atr))
  THEN LET pdi == AdxDi(Unwrap(EmaGet(spdm)), Unwrap(AtrGet(atr)))
           mdi == AdxDi(Unwrap(EmaGet(smdm)), Unwrap(AtrGet(atr)))
           dx  == FMul(FAbs(FDiv(FSub(pdi, mdi), FAdd(pdi, mdi))), FromInt(100))
       IN  IF IsNan(dx) THEN a.dx ELSE EmaNext(a.dx, dx)
  ELSE a.dx

\* the second half of Adx::next, given the three smoothers after their feed
AdxFeedDx(a, spdm, smdm, atr) ==
  IF IsSome(EmaGet(spdm)) /\ IsSome(EmaGet(smdm)) /\ IsSome(AtrGet(atr))
  THEN LET pdi == AdxDi(Unwrap(EmaGet(spdm)), Unwrap(AtrGet(atr)))
           mdi == AdxDi(Unwrap(EmaGet(smdm)), Unwrap(AtrGet(atr)))
       IN  EmaNext(a.dx, FMul(FAbs(FDiv(FSub(pdi, mdi), FAdd(pdi, mdi))), FromInt(100)))
  ELSE a.dx

AdxWith(a, spdm, smdm, atr, dx) ==
  [spdm |-> spdm, smdm |-> smdm, dx |-> dx, atr |-> atr,
   value |-> IF IsSome(EmaGet(dx)) THEN EmaGet(dx) ELSE a.value]

AdxFed(a, spdm, smdm, atr) == AdxWith(a, spdm, smdm, atr, AdxFeedDx(a, spdm, smdm, atr))

AdxNext(a, high, high_prev, low, low_prev, close_prev) ==
  AdxFed(a, EmaNext(a.spdm, Pdm(high, high_prev, low, low_prev)),
            EmaNext(a.smdm, Mdm(high, high_prev, low, low_prev)),
            AtrNext(a.atr, high, close_prev, low))

\* (adx, +DI, -DI)
AdxGet(a) ==
  IF IsSome(EmaGet(a.spdm)) /\ IsSome(EmaGet(a.smdm)) /\ IsSome(AtrGet(a.atr))
  THEN <<a.value,
         Some(AdxDi(Unwrap(EmaGet(a.spdm)), Unwrap(AtrGet(a.atr)))),
         Some(AdxDi(Unwrap(EmaGet(a.smdm)), Unwrap(AtrGet(a.atr))))>>
  ELSE <<a.value, None, None>>

(***************************************************************************)
(* BollingerBand                                                           *)
(***************************************************************************)
BBNew(period, m) ==
  [typical_price |-> SmaNew(period), dev |-> StdNew(period), m |-> m, value |-> None]

\* mutant: the bands lie one deviation from the mean, whatever the multiplier
BBWithUnscaled(b, tp, dv) ==
  [b EXCEPT !.typical_price = tp,
            !.dev = dv,
            !.value = IF IsSome(SmaGet(tp)) /\ IsSome(StdGet(dv))
                      THEN Some(<<Unwrap(SmaGet(tp)),
                                  FAdd(Unwrap(SmaGet(tp)), Unwrap(StdGet(dv))),
                                  FSub(Unwrap(SmaGet(tp)), Unwrap(StdGet(dv)))>>)
                      ELSE b.value]

\* the rest of BollingerBand::next, given the two sub-indicators after their feed;
\* value is Some(<<mean, upper_band, lower_band>>)
BBWith(b, tp, dv) ==
  [b EXCEPT !.typical_price = tp,
            !.dev = dv,
            !.value = IF IsSome(SmaGet(tp)) /\ IsSome(StdGet(dv))
                      THEN Some(<<Unwrap(SmaGet(tp)),
                                  FAdd(Unwrap(SmaGet(tp)), FMul(b.m, Unwrap(StdGet(dv)))),
                                  FSub(Unwrap(SmaGet(tp)), FMul(b.m, Unwrap(StdGet(dv))))>>)
                      ELSE b.value]

\* mutant: the mean misses the first sample and lags one feed behind the deviation
BBNextMeanLags(b, close) ==
  BBWith(b, IF b.dev = StdNew(b.dev.period) THEN b.typical_price
            ELSE SmaNext(b.typical_price, close),
         StdNext(b.dev, close))

BBNext(b, close) == BBWith(b, SmaNext(b.typical_price, close), StdNext(b.dev, close))

BBDev(b) == IF IsSome(StdGet(b.dev)) THEN Some(FMul(Unwrap(StdGet(b.dev)), b.m)) ELSE None

BBGet(b) == b.value

(***************************************************************************)
(* Trader: construction and the evaluation of one candle                   *)
(***************************************************************************)
BBPeriod  == 20
AdxPeriod == 14

\* f64::EPSILON lies below the resolution: the smallest positive magnitude stands for it
F64Epsilon == 1

\* the f64 remainder a % b, with the sign of a
FRem(a, b) ==
  IF IsNan(a) \/ IsNan(b) \/ ~IsFinite(a) \/ b = 0 THEN NaN
  ELSE IF ~IsFinite(b) THEN a
  ELSE LET d == IF b > 0 THEN b ELSE 0 - b
       IN  IF a >= 0 THEN a % d ELSE 0 - ((0 - a) % d)

RECURSIVE Pow10(_)
Pow10(n) == IF n = 0 THEN 1 ELSE 10 * Pow10(n - 1)

\* 10f64.powi(-(precision as i32)): the lot step
LotStep(precision) == Scale \div Pow10(precision)

\* base -= base % 10f64.powi(-(precision as i32))
RoundToStep(base, precision) == FSub(base, FRem(base, LotStep(precision)))

\* Trader::new, then the locals backtest() and live() declare before their loops;
\* balances are the free balances the account reports
TraderNew(mode, start_amount, balances, precision) ==
  [mode  |-> mode,
   quote |-> IF mode = "Live" THEN balances.quote ELSE start_amount,
   base  |-> IF mode = "Live" THEN RoundToStep(balances.base, precision) ELSE 0,
   precision |-> precision,
   bb  |-> BBNew(BBPeriod, FromInt(2)),
   adx |-> AdxNew(AdxPeriod),
   net |-> 0,
   p_trade |-> 0,
   n_trade |-> 0,
   uptrend_buy_case |-> FALSE,
   index |-> 0,
   prev_kline |-> None,
   pc |-> "run"]

\* bb.next(close), and adx.next(..) when there is a previous candle
TraderFeed(t, k) ==
  [t EXCEPT !.bb = BBNext(t.bb, k.close),
            !.adx = IF IsSome(t.prev_kline)
                    THEN LET prev == Unwrap(t.prev_kline)
                         IN  AdxNext(t.adx, k.high, prev.high, k.low, prev.low, prev.close)
                    ELSE t.adx]

\* if let (Some((mean, bb_upper, bb_lower)), (Some(adx_val), Some(pdi_val), Some(mdi_val)))
Ready(t) ==
  /\ IsSome(BBGet(t.bb))
  /\ \A i \in 1..3 : IsSome(AdxGet(t.adx)[i])

\* start_time <= open_time[index], for a series whose first `hist` candles open before
\* start_time and whose open times increase
Started(hist, index) == hist <= index

\* self.base.abs() < f64::EPSILON, and a mutant with the test inverted
FlatInverted(base) == ~FLt(FAbs(base), F64Epsilon)
Flat(base) == FLt(FAbs(base), F64Epsilon)

Mean(t)     == Unwrap(BBGet(t.bb))[1]
BbUpper(t)  == Unwrap(BBGet(t.bb))[2]
BbLower(t)  == Unwrap(BBGet(t.bb))[3]
AdxVal(t)   == Unwrap(AdxGet(t.adx)[1])
PdiVal(t)   == Unwrap(AdxGet(t.adx)[2])
MdiVal(t)   == Unwrap(AdxGet(t.adx)[3])
\* bb.dev().unwrap() / 2f64
HalfDev(t)  == FDiv(Unwrap(BBDev(t.bb)), FromInt(2))

BacktestBbLowerCondition(t, k) ==
  LET ult_lower == FSub(BbLower(t), HalfDev(t))
  IN  \/ FLt(AdxVal(t), FromInt(15)) /\ FLt(k.close, BbLower(t))
      \/ FLt(AdxVal(t), FromInt(25)) /\ FLt(k.low, ult_lower)

BacktestMovingAverageCondition(t, k) ==
  /\ FGt(PdiVal(t), MdiVal(t))
  /\ FGt(AdxVal(t), FromInt(25))
  /\ FGt(k.low, Mean(t))
  /\ FLt(k.low, FAdd(Mean(t), HalfDev(t)))

\* the Flat branch of backtest(); a mutant that forgets to take the position
BacktestBuyNoPosition(t, k) ==
  LET mac == BacktestMovingAverageCondition(t, k)
  IN  IF BacktestBbLowerCondition(t, k) \/ mac
      THEN [tr |-> [t EXCEPT !.uptrend_buy_case = mac, !.net = t.quote],
            out |-> <<"Buy">>]
      ELSE [tr |-> [t EXCEPT !.uptrend_buy_case = mac], out |-> <<>>]

BacktestBuy(t, k) ==
  LET mac == BacktestMovingAverageCondition(t, k)
  IN  IF BacktestBbLowerCondition(t, k) \/ mac
      THEN [tr |-> [t EXCEPT !.uptrend_buy_case = mac,
                             !.base = FDiv(t.quote, k.close),
                             !.net = t.quote,
                             !.quote = 0],
            out |-> <<"Buy">>]
      ELSE [tr |-> [t EXCEPT !.uptrend_buy_case = mac], out |-> <<>>]

\* is_sign_positive: the sign bit of a NaN is whatever the platform produced
SignPositive(x, nan_positive) == IF IsNan(x) THEN nan_positive ELSE IsSignPositive(x)

\* the non-Flat branch of backtest()
BacktestSell(t, k, nan_positive) ==
  LET conditional_net == FSub(FDiv(FMul(t.base, k.close), t.net), FromInt(1))
      moving_average_condition ==
        /\ FGt(k.close, Mean(t))
        /\ SignPositive(conditional_net, nan_positive)
        /\ ~t.uptrend_buy_case
      bb_upper_condition == FGt(k.close, BbUpper(t))
      quote == FMul(t.base, k.close)
      net   == FMul(FSub(FDiv(quote, t.net), FromInt(1)), FromInt(100))
  IN  IF moving_average_condition \/ bb_upper_condition
      THEN [tr |-> [t EXCEPT !.quote = quote, !.net = net, !.base = 0,
                             !.p_trade = IF SignPositive(net, nan_positive) THEN @ + 1 ELSE @,
                             !.n_trade = IF SignPositive(net, nan_positive) THEN @ ELSE @ + 1],
            out |-> <<"Sell">>]
      ELSE [tr |-> t, out |-> <<>>]

\* a mutant that tests for a position again after the Flat branch has run
BacktestDecideFallThrough(t, k, nan_positive) ==
  LET r1 == IF Flat(t.base) THEN BacktestBuy(t, k) ELSE [tr |-> t, out |-> <<>>]
      r2 == IF ~Flat(r1.tr.base) THEN BacktestSell(r1.tr, k, nan_positive)
            ELSE [tr |-> r1.tr, out |-> <<>>]
  IN  [tr |-> r2.tr, out |-> r1.out \o r2.out]

\* if self.base.abs() < f64::EPSILON { .. } else { .. }
BacktestDecide(t, k, nan_positive) ==
  IF Flat(t.base) THEN BacktestBuy(t, k) ELSE BacktestSell(t, k, nan_positive)

LiveBbLowerCondition(t, k) ==
  LET bound == IF FLt(AdxVal(t), FromInt(15)) THEN BbLower(t)
               ELSE FSub(BbLower(t), HalfDev(t))
  IN  FGt(bound, k.close)

\* mutant: the low is not required to be above the mean
LiveMovingAverageConditionNoFloor(t, k) ==
  /\ FGt(PdiVal(t), MdiVal(t))
  /\ FGt(AdxVal(t), FromInt(25))
  /\ FLt(k.low, FAdd(Mean(t), HalfDev(t)))

LiveMovingAverageCondition(t, k) ==
  /\ FGt(PdiVal(t), MdiVal(t))
  /\ FGt(AdxVal(t), FromInt(25))
  /\ FGt(k.low, Mean(t))
  /\ FLt(k.low, FAdd(Mean(t), HalfDev(t)))

\* new_order(..).expect(..): a refused order ends the process
Panic(t, order) == [tr |-> [t EXCEPT !.pc = "panic"], out |-> <<order>>]

\* the Flat branch of live(); accepted: the exchange took the order; balance: the free
\* base balance it reports afterwards
LiveBuy(t, k, accepted, balance) ==
  IF LiveBbLowerCondition(t, k) \/ LiveMovingAverageCondition(t, k)
  THEN IF accepted
       THEN [tr |-> [t EXCEPT !.base = RoundToStep(balance, t.precision),
                              !.net = t.quote,
                              !.quote = 0],
             out |-> <<"Buy">>]
       ELSE Panic(t, "Buy")
  ELSE [tr |-> t, out |-> <<>>]

\* the non-Flat branch of live(); balance: the free quote balance reported afterwards
LiveSell(t, k, accepted, balance) ==
  IF FGt(k.close, BbUpper(t))
  THEN IF accepted
       THEN [tr |-> [t EXCEPT !.quote = balance,
                              !.net = FMul(FSub(FDiv(balance, t.net), FromInt(1)),
                                           FromInt(100)),
                              !.base = 0],
             out |-> <<"Sell">>]
       ELSE Panic(t, "Sell")
  ELSE [tr |-> t, out |-> <<>>]

LiveDecide(t, k, accepted, base_balance, quote_balance) ==
  IF Flat(t.base) THEN LiveBuy(t, k, accepted, base_balance)
  ELSE LiveSell(t, k, accepted, quote_balance)

(***************************************************************************)
(* The indicators under test, each fed arbitrary ordinary samples          *)
(***************************************************************************)
SmaStart == \E p \in Periods : sma = SmaNew(p) /\ smaWin = <<>>
SdStart  == \E p \in Periods : sd = StdNew(p) /\ sdWin = <<>>
ExtStart == \E p \in Periods : mx = MaxNew(p) /\ mn = MinNew(p) /\ extWin = <<>>

SmaFeed ==
  \E v \in Samples :
    /\ sma' = SmaNext(sma, v)
    /\ smaWin' = LastN(Append(smaWin, v), sma.period)
    /\ UNCHANGED <<sdVars, extVars, tdVars, trVars, ioVars>>

StdFeed ==
  \E v \in Samples :
    /\ sd' = StdNext(sd, v)
    /\ sdWin' = LastN(Append(sdWin, v), sd.period)
    /\ UNCHANGED <<smaVars, extVars, tdVars, trVars, ioVars>>

\* as StochRsi::next feeds its Maximum and its Minimum: the same sample to both
ExtFeed ==
  \E v \in Samples :
    /\ mx' = MaxNext(mx, v)
    /\ mn' = MinNext(mn, v)
    /\ extWin' = LastN(Append(extWin, v), mx.period)
    /\ UNCHANGED <<smaVars, sdVars, tdVars, trVars, ioVars>>

TdStart == td = TdNew /\ tdWin = <<>>

TdFeed ==
  \E k \in TdCandles :
    /\ td' = TdNext(td, k.high, k.low, k.close)
    /\ tdWin' = LastN(Append(tdWin, k), 4)
    /\ UNCHANGED <<smaVars, sdVars, extVars, trVars, ioVars>>

\* the candles of the series: a rise or a fall of 1.0, a fall or a rise of a tenth of
\* the price, and a candle that closes 1.0 up after trading a fifth below the last close
CandleOf(p, kind) ==
  CASE kind = "up"     -> [high |-> p + Scale, low |-> p, close |-> p + Scale]
    [] kind = "down"   -> [high |-> p, low |-> p - Scale, close |-> p - Scale]
    [] kind = "dip"    -> [high |-> p, low |-> p - p \div 10, close |-> p - p \div 10]
    [] kind = "spike"  -> [high |-> p + p \div 10, low |-> p, close |-> p + p \div 10]
    [] kind = "hammer" -> [high |-> p + Scale, low |-> p - p \div 5, close |-> p + Scale]

\* how a series starts: a steady rise, a sideways market, a strict alternation
Shapes == {<<"up">>, <<"up", "up", "down", "down">>, <<"up", "down">>}

\* the last candle before a complete set of indicator values can exist
LastWarm  == 2 * AdxPeriod - 1
SeriesLen == LastWarm + MaxTail

\* the candles the n-th candle of a series is drawn from: its shape's, then the shape's
\* or a dip for the last FreeWarm candles up to LastWarm, then any of four
KindsAt(shape, n) ==
  IF n > LastWarm THEN {"up", "dip", "spike", "hammer"}
  ELSE IF n > LastWarm - FreeWarm THEN {shape[((n - 1) % Len(shape)) + 1], "dip"}
  ELSE {shape[((n - 1) % Len(shape)) + 1]}

\* the close the next candle starts from; a series opens at 30.0
LastClose(t) == IF IsSome(t.prev_kline) THEN Unwrap(t.prev_kline).close ELSE FromInt(30)

\* the sessions checked: a replay whose data starts at start_time or LastWarm + 1 candles
\* before it; a live session that loaded LastWarm - 1 or LastWarm + 1 candles, on an
\* account with no base balance or with 2.004 of it
Sessions ==
  [mode : {"Backtest"}, hist : {0, LastWarm + 1}, shape : Shapes,
   balances : {[quote |-> 0, base |-> 0]}]
  \cup
  [mode : {"Live"}, hist : {LastWarm - 1, LastWarm + 1}, shape : Shapes,
   balances : {[quote |-> FromInt(100), base |-> 0],
               [quote |-> FromInt(100), base |-> FromInt(2) + 4]}]

\* what is observed of a session: hist, the number of loaded candles that open before
\* start_time; shape, how its series starts; n and kline, the number and the values of
\* the candle last processed; base_before, the base amount held when that candle
\* arrived; out, the orders its evaluation produced; orders, all orders so far;
\* net_before, the entry reference when that candle arrived; entry, the rule by which
\* the last Buy was produced
ObsNew(hist, shape, base) ==
  [hist |-> hist, shape |-> shape, n |-> 0, kline |-> None, base_before |-> base,
   net_before |-> 0, entry |-> None, out |-> <<>>, orders |-> <<>>]

\* the entry kind of a Buy on candle k, given the indicators fed with it
EntryKind(fed, k) ==
  IF LiveMovingAverageCondition(fed, k) THEN "MeanReversionEntry" ELSE "DipEntry"

Observe(o, t, k, out) ==
  [o EXCEPT !.n = t.index + 1, !.kline = Some(k), !.base_before = t.base,
            !.net_before = t.net,
            !.entry = IF out = <<"Buy">> THEN Some(EntryKind(TraderFeed(t, k), k)) ELSE @,
            !.out = out, !.orders = o.orders \o out]

TraderStart ==
  \E c \in Sessions :
    /\ tr = TraderNew(c.mode, FromInt(100), c.balances, 2)
    /\ obs = ObsNew(c.hist, c.shape, RoundToStep(c.balances.base, 2))

\* one iteration of the loop of backtest(): feed the indicators, then evaluate
BacktestStep ==
  /\ tr.mode = "Backtest" /\ tr.pc = "run" /\ tr.index < SeriesLen
  /\ \E kind \in KindsAt(obs.shape, tr.index + 1) :
     \E k \in {CandleOf(LastClose(tr), kind)} :
     \E fed \in {TraderFeed(tr, k)} :
     \E nan_positive \in BOOLEAN :
     \E r \in {IF Started(obs.hist, tr.index) /\ Ready(fed)
               THEN BacktestDecide(fed, k, nan_positive)
               ELSE [tr |-> fed, out |-> <<>>]} :
           /\ tr' = [r.tr EXCEPT !.index = tr.index + 1, !.prev_kline = Some(k)]
           /\ obs' = Observe(obs, tr, k, r.out)
  /\ UNCHANGED <<smaVars, sdVars, extVars, tdVars, ioVars>>

\* one iteration of the first loop of live(): the loaded candles only feed the indicators
LiveLoad ==
  /\ tr.mode = "Live" /\ tr.pc = "run" /\ tr.index < obs.hist
  /\ \E kind \in KindsAt(obs.shape, tr.index + 1) :
     \E k \in {CandleOf(LastClose(tr), kind)} :
           /\ tr' = [TraderFeed(tr, k) EXCEPT !.index = tr.index + 1,
                                              !.prev_kline = Some(k)]
           /\ obs' = Observe(obs, tr, k, <<>>)
  /\ UNCHANGED <<smaVars, sdVars, extVars, tdVars, ioVars>>

\* one timeout of the polling loop of live(): fetch the closed candle, feed, evaluate;
\* an accepted market order is filled at the close
LiveTick ==
  /\ tr.mode = "Live" /\ tr.pc = "run" /\ obs.hist <= tr.index /\ tr.index < SeriesLen
  /\ \E kind \in KindsAt(obs.shape, tr.index + 1) :
     \E k \in {CandleOf(LastClose(tr), kind)} :
     \E fed \in {TraderFeed(tr, k)} :
     \E accepted \in BOOLEAN :
     \E r \in {IF Ready(fed)
               THEN LiveDecide(fed, k, accepted,
                               FDiv(fed.quote, k.close), FMul(fed.base, k.close))
               ELSE [tr |-> fed, out |-> <<>>]} :
           /\ tr' = IF r.tr.pc = "panic" THEN r.tr
                    ELSE [r.tr EXCEPT !.index = tr.index + 1, !.prev_kline = Some(k)]
           /\ obs' = Observe(obs, tr, k, r.out)
  /\ UNCHANGED <<smaVars, sdVars, extVars, tdVars, ioVars>>

(***************************************************************************)
(* Byte buffers                                                            *)
(***************************************************************************)
\* bytes are one-character strings; a buffer is a sequence of them
Quote == "\""
AsciiDigits == <<"0", "1", "2", "3", "4", "5", "6", "7", "8", "9">>
IsAsciiDigit(b) == \E d \in 1..10 : AsciiDigits[d] = b
DigitVal(b) == (CHOOSE d \in 1..10 : AsciiDigits[d] = b) - 1

I32Max == 2147483647

\* the digits of a non-negative integer, most significant first
RECURSIVE DigitsOf(_)
DigitsOf(n) ==
  IF n < 10 THEN <<AsciiDigits[n + 1]>>
  ELSE Append(DigitsOf(n \div 10), AsciiDigits[(n % 10) + 1])

\* i32 Display
I32ToString(n) == IF n < 0 THEN <<"-">> \o DigitsOf(0 - n) ELSE DigitsOf(n)

\* str::parse::<i32>: an optional sign, then at least one digit, nothing else,
\* and no overflow; negative numbers are accumulated downwards
RECURSIVE ParseI32Digits(_, _, _, _)
ParseI32Digits(s, k, acc, neg) ==
  IF k > Len(s) THEN Some(acc)
  ELSE IF ~IsAsciiDigit(s[k]) THEN None
  ELSE LET d == DigitVal(s[k])
           lim == IF neg /\ d > 0 THEN (I32Max - (d - 1)) \div 10 ELSE (I32Max - d) \div 10
       IN IF neg
            THEN IF acc < 0 - lim THEN None ELSE ParseI32Digits(s, k + 1, acc * 10 - d, neg)
            ELSE IF acc > lim THEN None ELSE ParseI32Digits(s, k + 1, acc * 10 + d, neg)

ParseI32(s) ==
  IF s = <<>> THEN None
  ELSE IF s[1] \in {"-", "+"}
    THEN IF Len(s) = 1 THEN None ELSE ParseI32Digits(s, 2, 0, s[1] = "-")
    ELSE ParseI32Digits(s, 1, 0, FALSE)

(***************************************************************************)
(* Error::from_json                                                        *)
(***************************************************************************)
KeyCode == <<"c", "o", "d", "e">>
KeyMsg  == <<"m", "s", "g">>

JsonPanic == [pc |-> "panic", code |-> 0, message |-> <<>>]

\* the loop of from_json from byte j on (1-based; i holds the 1-based start
\* of the token being read, key the key last read)
RECURSIVE FromJsonFrom(_, _, _, _, _, _)
FromJsonFrom(slice, j, i, key, code, message) ==
  IF j > Len(slice) THEN [pc |-> "ok", code |-> code, message |-> message]
  ELSE LET element == slice[j] IN
    IF key = None
      THEN IF i = None
             THEN FromJsonFrom(slice, j + 1, IF element = Quote THEN Some(j + 1) ELSE None,
                               key, code, message)
             ELSE IF element = Quote
                    THEN FromJsonFrom(slice, j + 1, None, Some(SubSeq(slice, i[1], j - 1)),
                                      code, message)
                    ELSE FromJsonFrom(slice, j + 1, i, key, code, message)
      ELSE IF i = None
             THEN FromJsonFrom(slice, j + 1, IF element = ":" THEN Some(j + 1) ELSE None,
                               key, code, message)
             ELSE IF element \in {",", "}"}
                    THEN LET value == SubSeq(slice, i[1], j - 1) IN
                         IF key[1] = KeyCode
                           THEN IF ParseI32(value) = None THEN JsonPanic
                                ELSE FromJsonFrom(slice, j + 1, None, None,
                                                  ParseI32(value)[1], message)
                           ELSE IF key[1] = KeyMsg
                             THEN IF Len(value) < 2 THEN JsonPanic
                                  ELSE FromJsonFrom(slice, j + 1, None, None, code,
                                                    SubSeq(value, 2, Len(value) - 1))
                             ELSE JsonPanic
                    ELSE FromJsonFrom(slice, j + 1, i, key, code, message)

FromJson(slice) == FromJsonFrom(slice, 1, None, None, 0, <<>>)

\* the two-field error document of the exchange, in either field order
MaxMsg == 2
MsgChars == {"a", ",", "}"}
Codes == {-1120, -1, 0, 2015}
RECURSIVE TextsUpTo(_, _)
TextsUpTo(chars, n) ==
  IF n = 0 THEN {<<>>}
  ELSE LET shorter == TextsUpTo(chars, n - 1)
       IN shorter \cup {Append(t, ch) : t \in shorter, ch \in chars}

CodeField(c) == <<Quote>> \o KeyCode \o <<Quote, ":">> \o I32ToString(c)
MsgField(m)  == <<Quote>> \o KeyMsg \o <<Quote, ":", Quote>> \o m \o <<Quote>>
ErrorDocument(c, m, order) ==
  IF order = "code_first"
    THEN <<"{">> \o CodeField(c) \o <<",">> \o MsgField(m) \o <<"}">>
    ELSE <<"{">> \o MsgField(m) \o <<",">> \o CodeField(c) \o <<"}">>

EjNew(slice, c, m, order) ==
  [slice |-> slice, c |-> c, m |-> m, order |-> order, pc |-> "idle",
   res |-> [pc |-> "none", code |-> 0, message |-> <<>>]]

EjStart ==
  \E c \in Codes, m \in TextsUpTo(MsgChars, MaxMsg), order \in {"code_first", "msg_first"} :
    ej = EjNew(ErrorDocument(c, m, order), c, m, order)

ErrorFromJson ==
  /\ ej.pc = "idle"
  /\ ej' = [ej EXCEPT !.pc = "done", !.res = FromJson(ej.slice)]
  /\ UNCHANGED <<coreVars, kp, hs, lv, runVars>>

(***************************************************************************)
(* parse_kline_body, Kline::parse_2d_array                                 *)
(***************************************************************************)
\* str::parse::<i64>; open times of the model stay far below 2^31, where the
\* narrower accumulator of ParseI32 gives the same answer
ParseI64(s) == ParseI32(s)

\* str::parse::<u32>: as i32 without the minus sign
ParseU32(s) == IF s # <<>> /\ s[1] = "-" THEN None ELSE ParseI32(s)

\* the value of a run of digits, and of a run of fractional digits at the
\* resolution of the fixed-point f64 (unit is the weight of the next digit)
RECURSIVE DigitsValue(_, _, _)
DigitsValue(s, k, acc) ==
  IF k > Len(s) THEN acc ELSE DigitsValue(s, k + 1, acc * 10 + DigitVal(s[k]))
RECURSIVE FracValue(_, _, _, _)
FracValue(s, k, unit, acc) ==
  IF k > Len(s) \/ unit = 0 THEN acc
  ELSE FracValue(s, k + 1, unit \div 10, acc + DigitVal(s[k]) * unit)

\* str::parse::<f64> on the tokens the array parsers cut out: digits with at
\* most one decimal point and at least one digit
ParseF64(s) ==
  LET dots == {k \in 1..Len(s) : s[k] = "."}
      dot == IF dots = {} THEN Len(s) + 1 ELSE CHOOSE k \in dots : TRUE
  IN IF Cardinality(dots) > 1 \/ Len(s) = Cardinality(dots) THEN None
     ELSE IF \E k \in 1..Len(s) : ~(IsAsciiDigit(s[k]) \/ s[k] = ".") THEN None
     ELSE Some(DigitsValue(SubSeq(s, 1, dot - 1), 1, 0) * Scale
               + FracValue(SubSeq(s, dot + 1, Len(s)), 1, Scale \div 10, 0))

\* Utc.timestamp_millis: seconds and the milliseconds within the second
TimestampMillis(ms) == [secs |-> ms \div 1000, millis |-> ms % 1000]

KlinesNew ==
  [pc |-> "ok", found_open_bracket |-> FALSE, found_body |-> FALSE, index |-> 0,
   tmp_bytes |-> <<>>, open_time |-> <<>>, open |-> <<>>, high |-> <<>>,
   low |-> <<>>, close |-> <<>>]

\* a comma inside a row: the bytes gathered are parsed into the column `index`
KlineBodyField(s) ==
  LET i64 == ParseI64(s.tmp_bytes)
      f64 == ParseF64(s.tmp_bytes)
      u32 == ParseU32(s.tmp_bytes)
      nxt == [s EXCEPT !.tmp_bytes = <<>>, !.index = s.index + 1]
      bad == [s EXCEPT !.pc = "panic"]
  IN CASE s.index = 0 -> IF i64 = None THEN bad
                         ELSE [nxt EXCEPT !.open_time = Append(@, TimestampMillis(i64[1]))]
       [] s.index = 1 -> IF f64 = None THEN bad ELSE [nxt EXCEPT !.open = Append(@, f64[1])]
       [] s.index = 2 -> IF f64 = None THEN bad ELSE [nxt EXCEPT !.high = Append(@, f64[1])]
       [] s.index = 3 -> IF f64 = None THEN bad ELSE [nxt EXCEPT !.low = Append(@, f64[1])]
       [] s.index = 4 -> IF f64 = None THEN bad ELSE [nxt EXCEPT !.close = Append(@, f64[1])]
       [] s.index \in {5, 7, 9, 10} -> IF f64 = None THEN bad ELSE nxt
       [] s.index = 6 -> IF i64 = None THEN bad ELSE nxt
       [] s.index = 8 -> IF u32 = None THEN bad ELSE nxt
       [] OTHER -> nxt

\* the digits of every field are gathered, also those of the twelfth
KlineBodyGatherAll(s, byte) ==
  IF IsAsciiDigit(byte) \/ byte = "." THEN [s EXCEPT !.tmp_bytes = Append(@, byte)]
  ELSE IF byte = "," THEN KlineBodyField(s)
  ELSE s
\* inside a row: digits and points of the first eleven fields are gathered
KlineBodyGather(s, byte) ==
  IF (IsAsciiDigit(byte) \/ byte = ".") /\ s.index <= 10
    THEN [s EXCEPT !.tmp_bytes = Append(@, byte)]
  ELSE IF byte = "," THEN KlineBodyField(s)
  ELSE s

\* one iteration of the loop of parse_kline_body
KlineBodyByte(s, byte) ==
  LET s1 == IF byte = "[" THEN [s EXCEPT !.found_open_bracket = TRUE]
            ELSE IF byte = "]" /\ s.found_body
              THEN [s EXCEPT !.found_open_bracket = FALSE, !.found_body = FALSE, !.index = 0]
              ELSE s
      s2 == IF ~s1.found_body /\ s1.found_open_bracket /\ IsAsciiDigit(byte)
              THEN [s1 EXCEPT !.found_body = TRUE] ELSE s1
  IN IF s2.found_body THEN KlineBodyGather(s2, byte) ELSE s2

\* the Klines returned: the five public columns
KlinesOf(s) ==
  [pc |-> s.pc, open_time |-> s.open_time, open |-> s.open, high |-> s.high,
   low |-> s.low, close |-> s.close]

\* exchange::Kline::default()
KlineDefault == [pc |-> "ok", open_time |-> 0, open |-> 0, high |-> 0, low |-> 0, close |-> 0]

\* Kline::parse_array from byte `count` on; i is the start of the token being
\* read, index the field it belongs to
RECURSIVE ParseArrayFrom(_, _, _, _, _)
ParseArrayFrom(slice, count, i, index, kline) ==
  IF count > Len(slice) THEN kline
  ELSE LET element == slice[count]
           i1 == IF IsAsciiDigit(element) /\ i = None THEN Some(count) ELSE i
       IN IF i1 # None /\ element \in {Quote, ","}
            THEN LET s == SubSeq(slice, i1[1], count - 1)
                     i64 == ParseI64(s)
                     f64 == ParseF64(s)
                     bad == [kline EXCEPT !.pc = "panic"]
                 IN CASE index = 0 -> IF i64 = None THEN bad
                           ELSE ParseArrayFrom(slice, count + 1, None, 1,
                                               [kline EXCEPT !.open_time = i64[1]])
                      [] index = 1 -> IF f64 = None THEN bad
                           ELSE ParseArrayFrom(slice, count + 1, None, 2,
                                               [kline EXCEPT !.open = f64[1]])
                      [] index = 2 -> IF f64 = None THEN bad
                           ELSE ParseArrayFrom(slice, count + 1, None, 3,
                                               [kline EXCEPT !.high = f64[1]])
                      [] index = 3 -> IF f64 = None THEN bad
                           ELSE ParseArrayFrom(slice, count + 1, None, 4,
                                               [kline EXCEPT !.low = f64[1]])
                      [] index = 4 -> IF f64 = None THEN bad
                           ELSE [kline EXCEPT !.close = f64[1]]
                      [] OTHER -> ParseArrayFrom(slice, count + 1, None, index + 1, kline)
            ELSE ParseArrayFrom(slice, count + 1, i1, index, kline)

ParseArray(slice) == ParseArrayFrom(slice, 1, None, 0, KlineDefault)

\* one iteration of the loop of Kline::parse_2d_array at byte j: i is the
\* start of the row being read
Parse2dArrayByte(slice, j, i, klines) ==
  LET item == slice[j]
      i1 == IF i = None /\ item = "[" THEN Some(j) ELSE i
  IN IF i1 # None /\ item = "]"
       THEN [i |-> None, klines |-> Append(klines, ParseArray(SubSeq(slice, i1[1], j - 1)))]
       ELSE [i |-> i1, klines |-> klines]

\* the exchange's text form of a candle series: one array of twelve fields
\* per candle, prices as quoted decimals
MaxCandles == 2
FracDigits(v) ==
  <<AsciiDigits[((v % Scale) \div 100) + 1], AsciiDigits[((v % 100) \div 10) + 1],
    AsciiDigits[(v % 10) + 1]>>
PriceToken(v) ==
  <<Quote>> \o DigitsOf(v \div Scale) \o <<".">> \o FracDigits(v)
            \o <<"0", "0", "0", "0", "0", Quote>>
KlineRow(c) ==
  <<"[">> \o DigitsOf(c.open_time) \o <<",">> \o PriceToken(c.open) \o <<",">>
    \o PriceToken(c.high) \o <<",">> \o PriceToken(c.low) \o <<",">>
    \o PriceToken(c.close) \o <<",">> \o PriceToken(FromInt(148) + 114) \o <<",">>
    \o DigitsOf(c.open_time + 59999) \o <<",">> \o PriceToken(FromInt(2) + 190)
    \o <<",">> \o DigitsOf(308) \o <<",">> \o PriceToken(FromInt(17) + 568)
    \o <<",">> \o PriceToken(28) \o <<",">> \o PriceToken(FromInt(179) + 624) \o <<"]">>
RECURSIVE KlineRows(_, _)
KlineRows(series, k) ==
  IF k > Len(series) THEN <<>>
  ELSE (IF k > 1 THEN <<",">> ELSE <<>>) \o KlineRow(series[k]) \o KlineRows(series, k + 1)
KlineText(series) == <<"[">> \o KlineRows(series, 1) \o <<"]">>

KlineChoices ==
  {[open_time |-> 60000 * t, open |-> o, high |-> o + FromInt(1) + 5, low |-> 16,
    close |-> o + 250] : t \in {0, 1, 25}, o \in {FromInt(1), FromInt(30) + 125}}
RECURSIVE SeriesUpTo(_)
SeriesUpTo(n) ==
  IF n = 0 THEN {<<>>}
  ELSE LET shorter == SeriesUpTo(n - 1)
       IN shorter \cup {Append(s, c) : s \in shorter, c \in KlineChoices}

\* a call of one of the two parsers on the text of a series: j is the byte
\* the loop is at, s the locals of parse_kline_body, i and rows those of
\* parse_2d_array (which starts at the second byte)
KpNew(series, fn) ==
  [series |-> series, bytes |-> KlineText(series), fn |-> fn,
   j |-> IF fn = "parse_2d_array" THEN 2 ELSE 1,
   s |-> KlinesNew, i |-> None, rows |-> <<>>]

KpStart ==
  \E series \in SeriesUpTo(MaxCandles), fn \in {"parse_kline_body", "parse_2d_array"} :
    kp = KpNew(series, fn)

KpDone == kp.j > Len(kp.bytes) \/ kp.s.pc = "panic"

ParseKlineBodyStep ==
  /\ kp.fn = "parse_kline_body" /\ ~KpDone
  /\ kp' = [kp EXCEPT !.j = kp.j + 1, !.s = KlineBodyByte(kp.s, kp.bytes[kp.j])]
  /\ UNCHANGED <<coreVars, ej, hs, lv, runVars>>

Parse2dArrayStep ==
  /\ kp.fn = "parse_2d_array" /\ ~KpDone
  /\ \E r \in {Parse2dArrayByte(kp.bytes, kp.j, kp.i, kp.rows)} :
       kp' = [kp EXCEPT !.j = kp.j + 1, !.i = r.i, !.rows = r.klines]
  /\ UNCHANGED <<coreVars, ej, hs, lv, runVars>>

(***************************************************************************)
(* Haystack                                                                *)
(***************************************************************************)
AsciiLetters ==
  {"a", "b", "c", "d", "e", "f", "g", "h", "i", "j", "k", "l", "m", "n", "o", "p", "q",
   "r", "s", "t", "u", "v", "w", "x", "y", "z", "A", "B", "C", "D", "E", "F", "G", "H",
   "I", "J", "K", "L", "M", "N", "O", "P", "Q", "R", "S", "T", "U", "V", "W", "X", "Y", "Z"}
IsAsciiAlphanumeric(b) == b \in AsciiLetters \/ IsAsciiDigit(b)

\* pos counts the bytes consumed: slice[pos + 1] is the byte peek shows and
\* next consumes
\* skip_object never counts a nested opening brace
RECURSIVE SkipObjectFlat(_, _, _)
SkipObjectFlat(slice, pos, curly) ==
  IF pos >= Len(slice) THEN [pc |-> "ret", pos |-> pos]
  ELSE IF slice[pos + 1] = "}" THEN [pc |-> "ret", pos |-> pos + 1]
  ELSE SkipObjectFlat(slice, pos + 1, curly)
\* the loop of skip_object with `curly` braces open
RECURSIVE SkipObjectFrom(_, _, _)
SkipObjectFrom(slice, pos, curly) ==
  IF pos >= Len(slice) THEN [pc |-> "ret", pos |-> pos]
  ELSE IF slice[pos + 1] = "{" THEN SkipObjectFrom(slice, pos + 1, curly + 1)
  ELSE IF slice[pos + 1] = "}"
    THEN IF curly - 1 = 0 THEN [pc |-> "ret", pos |-> pos + 1]
         ELSE SkipObjectFrom(slice, pos + 1, curly - 1)
  ELSE SkipObjectFrom(slice, pos + 1, curly)
SkipObject(slice, pos) == SkipObjectFrom(slice, pos, 1)

\* the loop of skip_array with `square` brackets open
RECURSIVE SkipArrayFrom(_, _, _)
SkipArrayFrom(slice, pos, square) ==
  IF square = 0 THEN [pc |-> "ret", pos |-> pos]
  ELSE IF pos >= Len(slice) THEN [pc |-> "panic", pos |-> pos]
  ELSE IF slice[pos + 1] = "[" THEN SkipArrayFrom(slice, pos + 1, square + 1)
  ELSE IF slice[pos + 1] = "]" THEN SkipArrayFrom(slice, pos + 1, square - 1)
  ELSE SkipArrayFrom(slice, pos + 1, square)
SkipArray(slice, pos) == SkipArrayFrom(slice, pos, 1)

RECURSIVE SkipOther(_, _)
SkipOther(slice, pos) ==
  IF pos >= Len(slice) THEN [pc |-> "ret", pos |-> pos]
  ELSE IF slice[pos + 1] = "," THEN [pc |-> "ret", pos |-> pos + 1]
  ELSE SkipOther(slice, pos + 1)

SkipValue(slice, pos, value) ==
  CASE value = "Object" -> SkipObject(slice, pos)
    [] value = "Array" -> SkipArray(slice, pos)
    [] value = "Other" -> SkipOther(slice, pos)

\* while let Some(b) = self.peek() { if b == '"' { break } self.next() }
RECURSIVE SkipToQuote(_, _)
SkipToQuote(slice, pos) ==
  IF pos >= Len(slice) \/ slice[pos + 1] = Quote THEN pos ELSE SkipToQuote(slice, pos + 1)

\* the token loops of find_key and find_pair: bytes are consumed up to and
\* with a byte of `stops`; the token is slice[i..pos] at that byte. A byte
\* neither alphanumeric nor in `also`, or the end of the buffer, is a panic.
RECURSIVE ReadToken(_, _, _, _, _)
ReadToken(slice, pos, i, stops, also) ==
  IF pos >= Len(slice) THEN [pc |-> "panic", pos |-> pos, token |-> <<>>]
  ELSE IF slice[pos + 1] \in stops
    THEN [pc |-> "loop", pos |-> pos + 1, token |-> SubSeq(slice, i + 1, pos)]
  ELSE IF ~(IsAsciiAlphanumeric(slice[pos + 1]) \/ slice[pos + 1] \in also)
    THEN [pc |-> "panic", pos |-> pos, token |-> <<>>]
  ELSE ReadToken(slice, pos + 1, i, stops, also)

\* the locals of a scan and where its loop stands
ScanNew(pos) == [pc |-> "loop", pos |-> pos, k |-> None, v |-> None, index |-> None]
ScanPanic(st) == [st EXCEPT !.pc = "panic"]

\* one iteration of the loop of find_key
FindKeyIter(slice, key, st) ==
  IF st.k = None
    THEN IF st.index = None
      THEN LET q == SkipToQuote(slice, st.pos)
               pos == IF q < Len(slice) THEN q + 1 ELSE q
           IN IF pos < Len(slice) /\ IsAsciiAlphanumeric(slice[pos + 1])
                THEN [st EXCEPT !.pos = pos, !.index = Some(pos)]
                ELSE ScanPanic([st EXCEPT !.pos = pos])
      ELSE LET r == ReadToken(slice, st.pos, st.index[1], {Quote}, {})
           IN IF r.pc = "panic" THEN ScanPanic([st EXCEPT !.pos = r.pos])
              ELSE [st EXCEPT !.pos = r.pos, !.k = Some(r.token)]
    ELSE IF st.k[1] # key
      THEN IF st.pos >= Len(slice) THEN ScanPanic(st)
           ELSE IF slice[st.pos + 1] # ":" THEN ScanPanic([st EXCEPT !.pos = st.pos + 1])
           ELSE IF st.pos + 1 >= Len(slice) THEN ScanPanic([st EXCEPT !.pos = st.pos + 1])
           ELSE LET b == slice[st.pos + 2]
                    r == SkipValue(slice, st.pos + 2,
                                   IF b = "[" THEN "Array" ELSE IF b = "{" THEN "Object"
                                   ELSE "Other")
                IN [st EXCEPT !.pc = IF r.pc = "panic" THEN "panic" ELSE "loop",
                              !.pos = r.pos, !.k = None, !.index = None]
      ELSE [st EXCEPT !.pc = "ret"]

\* one iteration of the loop of find_pair
FindPairIter(slice, key, value, st) ==
  IF st.k = None
    THEN IF st.index = None
      THEN LET q == SkipToQuote(slice, st.pos)
           IN IF q + 1 < Len(slice) /\ IsAsciiAlphanumeric(slice[q + 2])
                THEN [st EXCEPT !.pos = q + 1, !.index = Some(q + 1)]
                ELSE ScanPanic([st EXCEPT !.pos = IF q < Len(slice) THEN q + 1 ELSE q])
      ELSE LET r == ReadToken(slice, st.pos, st.index[1], {Quote}, {})
           IN IF r.pc = "panic" THEN ScanPanic([st EXCEPT !.pos = r.pos])
              ELSE [st EXCEPT !.pos = r.pos, !.k = Some(r.token), !.index = None]
  ELSE IF st.v = None
    THEN IF st.k[1] # key
      THEN [st EXCEPT !.pos = SkipValue(slice, st.pos, "Object").pos, !.k = None]
      ELSE IF st.index = None
        THEN IF st.pos >= Len(slice) THEN st
             ELSE IF slice[st.pos + 1] # ":" \/ st.pos + 1 >= Len(slice)
               THEN [st EXCEPT !.pos = st.pos + 1]
             ELSE IF IsAsciiAlphanumeric(slice[st.pos + 2])
               THEN [st EXCEPT !.pos = st.pos + 1, !.index = Some(st.pos + 1)]
             ELSE IF slice[st.pos + 2] = Quote
               THEN [st EXCEPT !.pos = st.pos + 2, !.index = Some(st.pos + 2)]
             ELSE ScanPanic([st EXCEPT !.pos = st.pos + 1])
        ELSE LET r == ReadToken(slice, st.pos, st.index[1], {Quote, ","}, {"_"})
             IN IF r.pc = "panic" THEN ScanPanic([st EXCEPT !.pos = r.pos])
                ELSE [st EXCEPT !.pos = r.pos, !.v = Some(r.token)]
  ELSE IF st.v[1] = value THEN [st EXCEPT !.pc = "ret"]
  ELSE [st EXCEPT !.k = None, !.v = None, !.index = None]

\* a Haystack over `slice` with `start` bytes consumed, and the call made on
\* it: skip_value(kind), find_key(key) or find_pair(key, value)
HsNew(slice, start, op, kind, key, value) ==
  [slice |-> slice, start |-> start, op |-> op, kind |-> kind, key |-> key,
   value |-> value, st |-> ScanNew(start)]

\* the bytes after an opening delimiter: every buffer up to MaxBuf bytes
MaxBuf == 4
SkipChars == {"{", "}", "[", "]", ",", "a"}

SkipStart ==
  \E slice \in TextsUpTo(SkipChars, MaxBuf), kind \in {"Object", "Array", "Other"} :
    hs = HsNew(slice, 0, "skip_value", kind, <<>>, <<>>)

SkipValueCall ==
  /\ hs.op = "skip_value" /\ hs.st.pc = "loop"
  /\ \E r \in {SkipValue(hs.slice, hs.st.pos, hs.kind)} :
       hs' = [hs EXCEPT !.st.pc = r.pc, !.st.pos = r.pos]
  /\ UNCHANGED <<coreVars, ej, kp, lv, runVars>>

\* response documents: an array of sibling objects of up to MaxFields fields,
\* cut off after any number of bytes
MaxFields == 2
MaxObjects == 2
KeyA == <<Quote, "a", Quote>>
KeyK == <<Quote, "k", Quote>>
FieldChoices ==
  {KeyA \o <<":", "1">>,
   KeyA \o <<":", "{">> \o KeyK \o <<":", Quote, "w", Quote, "}">>,
   KeyA \o <<":", "[">> \o KeyK \o <<"]">>,
   KeyK \o <<":", Quote, "v", Quote>>,
   KeyK \o <<":", Quote, "w", Quote>>}

\* the texts `first`, `first,next`, .. of up to n items
RECURSIVE Joined(_, _)
Joined(items, n) ==
  IF n = 1 THEN items
  ELSE LET shorter == Joined(items, n - 1)
       IN shorter \cup {t \o <<",">> \o f : t \in shorter, f \in items}
ObjectTexts == {<<"{">> \o t \o <<"}">> : t \in Joined(FieldChoices, MaxFields)}
Documents == {<<"[">> \o t \o <<"]">> : t \in Joined(ObjectTexts, MaxObjects)}

\* find_key is called with the cursor inside the first object (as after a
\* find_pair), find_pair with the cursor at the start of the array
FindStart ==
  \E doc \in Documents :
    \E n \in 0..Len(doc), op \in {"find_key", "find_pair"} :
      hs = HsNew(SubSeq(doc, 1, n), IF op = "find_key" /\ n >= 2 THEN 2 ELSE 0, op,
                 "Other", <<"k">>, IF op = "find_pair" THEN <<"v">> ELSE <<>>)

\* an iteration that changes neither the cursor nor the locals is repeated
\* for ever
Iterated(st, r) == IF r = st THEN [r EXCEPT !.pc = "spin"] ELSE r

FindKeyStep ==
  /\ hs.op = "find_key" /\ hs.st.pc = "loop"
  /\ \E r \in {FindKeyIter(hs.slice, hs.key, hs.st)} : hs' = [hs EXCEPT !.st = Iterated(hs.st, r)]
  /\ UNCHANGED <<coreVars, ej, kp, lv, runVars>>

FindPairStep ==
  /\ hs.op = "find_pair" /\ hs.st.pc = "loop"
  /\ \E r \in {FindPairIter(hs.slice, hs.key, hs.value, hs.st)} :
       hs' = [hs EXCEPT !.st = Iterated(hs.st, r)]
  /\ UNCHANGED <<coreVars, ej, kp, lv, runVars>>

(***************************************************************************)
(* Trader::live: the polling loop and the task watching the keyboard       *)
(***************************************************************************)
\* a u64 as four 16-bit limbs, most significant first; `x as u64` of an i64
\* is its two's complement (the model's times stay far below one limb)
Limb == 65536
AsU64(x) ==
  IF x >= 0 THEN <<0, 0, 0, x>> ELSE <<Limb - 1, Limb - 1, Limb - 1, Limb + x>>

\* recv_timeout: a Duration of `timeout` milliseconds is over after `ms`
TimedOut(timeout, ms) ==
  timeout[1] = 0 /\ timeout[2] = 0 /\ timeout[3] = 0 /\ timeout[4] <= ms

\* candle interval, and how far the clock, the time of construction and the
\* time spent between construction and the first wait range (milliseconds)
IntervalMs == 3
MaxNow == 9
MaxStart == 3
MaxDelay == 3

\* Trader::new in live mode: the next multiple of the interval
StartTime(now, interval) == now + interval - (now % interval)

\* live() at its first wait, constructed at time `now` and `delay` later
LiveNew(now, delay) ==
  [now |-> now + delay, close_time |-> StartTime(now, IntervalMs) - 1,
   pc |-> "top", aux |-> "reading", chan |-> 0, joined |-> FALSE,
   holding |-> FALSE, pending |-> FALSE,
   timeout |-> AsU64(0), since |-> 0, quit |-> FALSE, quit_at |-> "none"]

LiveStart == \E now \in 0..MaxStart, delay \in 0..MaxDelay : lv = LiveNew(now, delay)

Running(l) == l.pc \notin {"exited", "panic"}

\* the clock
ClockTick ==
  /\ Running(lv) /\ lv.now < MaxNow
  /\ lv' = [lv EXCEPT !.now = @ + 1]
  /\ UNCHANGED <<coreVars, ej, kp, hs, runVars>>

\* the task reads 'q': it sends once and leaves its loop
AuxReadQuit ==
  /\ Running(lv) /\ lv.aux = "reading"
  /\ lv' = [lv EXCEPT !.chan = @ + 1, !.aux = "sent", !.quit = TRUE, !.quit_at = lv.pc]
  /\ UNCHANGED <<coreVars, ej, kp, hs, runVars>>

\* standard input ends: the task ends without sending, the sender is dropped
AuxEof ==
  /\ Running(lv) /\ lv.aux = "reading"
  /\ lv' = [lv EXCEPT !.aux = "done"]
  /\ UNCHANGED <<coreVars, ej, kp, hs, runVars>>

\* the task ends after its send
AuxExit ==
  /\ Running(lv) /\ lv.aux = "sent"
  /\ lv' = [lv EXCEPT !.aux = "done"]
  /\ UNCHANGED <<coreVars, ej, kp, hs, runVars>>

\* recv_timeout returns Ok but the loop goes on to the tick
OnMessageAsTimeout(l) == [l EXCEPT !.chan = @ - 1, !.pc = "poll"]
\* recv_timeout returns Ok: "Exiting", then the join
OnMessage(l) == [l EXCEPT !.chan = @ - 1, !.pc = "join"]

\* mutant: a dropped sender is taken for a timeout and the loop polls on
LoopWaitPollsOn ==
  /\ lv.pc = "top"
  /\ \E l \in {[lv EXCEPT !.timeout = AsU64(lv.close_time - lv.now), !.since = lv.now]} :
       lv' = IF l.chan > 0 THEN OnMessage(l)
             ELSE IF l.aux = "done" THEN [l EXCEPT !.pc = "poll"]
             ELSE [l EXCEPT !.pc = "recv"]
  /\ UNCHANGED <<coreVars, ej, kp, hs, runVars>>

\* the top of the loop: the timeout is computed and recv_timeout is called; a
\* message already there is returned at once, a dropped sender is an error
LoopWait ==
  /\ lv.pc = "top"
  /\ \E l \in {[lv EXCEPT !.timeout = AsU64(lv.close_time - lv.now), !.since = lv.now]} :
       lv' = IF l.chan > 0 THEN OnMessage(l)
             ELSE IF l.aux = "done" THEN [l EXCEPT !.pc = "panic"]
             ELSE [l EXCEPT !.pc = "recv"]
  /\ UNCHANGED <<coreVars, ej, kp, hs, runVars>>

RecvOk ==
  /\ lv.pc = "recv" /\ lv.chan > 0
  /\ lv' = OnMessage(lv)
  /\ UNCHANGED <<coreVars, ej, kp, hs, runVars>>

RecvTimeout ==
  /\ lv.pc = "recv" /\ TimedOut(lv.timeout, lv.now - lv.since)
  /\ lv' = [lv EXCEPT !.pc = "poll"]
  /\ UNCHANGED <<coreVars, ej, kp, hs, runVars>>

\* Err(Disconnected): panic!
RecvDisconnected ==
  /\ lv.pc = "recv" /\ lv.chan = 0 /\ lv.aux = "done"
  /\ lv' = [lv EXCEPT !.pc = "panic"]
  /\ UNCHANGED <<coreVars, ej, kp, hs, runVars>>

\* the end of a tick: prev_kline = kline; close_time += interval
TickDone(l) == [l EXCEPT !.pc = "top", !.close_time = @ + IntervalMs]

\* get_kline_data returns: an error is fatal, else the candle is fed and the
\* position evaluated; the evaluation sends an order or does not
PollReturn ==
  /\ lv.pc = "poll"
  /\ \E outcome \in {"error", "no_order", "order"} :
       lv' = CASE outcome = "error" -> [lv EXCEPT !.pc = "panic"]
               [] outcome = "no_order" -> TickDone(lv)
               [] outcome = "order" -> [lv EXCEPT !.pc = "order", !.pending = TRUE]
  /\ UNCHANGED <<coreVars, ej, kp, hs, runVars>>

\* the order call returns and a message in the channel ends the loop there
AfterOrderCancellable(l, accepted) ==
  IF ~accepted THEN [l EXCEPT !.pc = "panic"]
  ELSE IF l.chan > 0 THEN OnMessage(l)
  ELSE [l EXCEPT !.pc = "balance"]
\* new_order returns: refused is fatal, else get_balance is called
AfterOrder(l, accepted) ==
  IF accepted THEN [l EXCEPT !.pc = "balance"] ELSE [l EXCEPT !.pc = "panic"]

OrderReturn ==
  /\ lv.pc = "order"
  /\ \E accepted \in BOOLEAN : lv' = AfterOrder(lv, accepted)
  /\ UNCHANGED <<coreVars, ej, kp, hs, runVars>>

\* account_information returns: the position is recorded and the tick ends
BalanceReturn ==
  /\ lv.pc = "balance"
  /\ \E ok \in BOOLEAN :
       lv' = IF ok THEN TickDone([lv EXCEPT !.holding = ~@, !.pending = FALSE])
             ELSE [lv EXCEPT !.pc = "panic"]
  /\ UNCHANGED <<coreVars, ej, kp, hs, runVars>>

\* handle.join() returns once the task has ended; break
Join ==
  /\ lv.pc = "join" /\ lv.aux = "done"
  /\ lv' = [lv EXCEPT !.pc = "exited", !.joined = TRUE]
  /\ UNCHANGED <<coreVars, ej, kp, hs, runVars>>

MainStep ==
  \/ LoopWait \/ RecvOk \/ RecvTimeout \/ RecvDisconnected
  \/ PollReturn \/ OrderReturn \/ BalanceReturn \/ Join


(***************************************************************************)
(* An Ema under test: constructed by new or by new_with_constant, then fed *)
(***************************************************************************)
MaxFeeds == 5

\* the explicit constants: 1/period, as Adx::new passes, and one half
EmaAlphas(p) == {FDiv(FromInt(1), FromInt(p)), FDiv(FromInt(1), FromInt(2))}

\* an indicator under test: the object, every sample fed so far, the constant it was
\* constructed with
UnderTest(obj, alpha) == [obj |-> obj, fed |-> <<>>, alpha |-> alpha]

EmaStart ==
  \E p \in Periods :
    \/ ind = UnderTest(EmaNew(p), FDiv(FromInt(2), FromInt(p + 1)))
    \/ \E a \in EmaAlphas(p) : ind = UnderTest(EmaNewWithConstant(p, a), a)

EmaFeed ==
  \E v \in Samples :
    /\ Len(ind.fed) < MaxFeeds
    /\ ind' = [ind EXCEPT !.obj = EmaNext(ind.obj, v), !.fed = Append(ind.fed, v)]
    /\ UNCHANGED <<coreVars, ej, kp, hs, lv, dec, cf, fd>>

(***************************************************************************)
(* A BollingerBand under test                                              *)
(***************************************************************************)
\* the multipliers: none, one and a half, and the 2.0 of Trader::new
Multipliers == {FromInt(0), FDiv(FromInt(3), FromInt(2)), FromInt(2)}

BBStart == \E p \in Periods, m \in Multipliers : ind = UnderTest(BBNew(p, m), m)

BBFeed ==
  \E close \in Samples :
    /\ Len(ind.fed) < MaxFeeds
    /\ ind' = [ind EXCEPT !.obj = BBNext(ind.obj, close), !.fed = Append(ind.fed, close)]
    /\ UNCHANGED <<coreVars, ej, kp, hs, lv, dec, cf, fd>>

(***************************************************************************)
(* An Adx under test                                                       *)
(***************************************************************************)
\* the arguments of one call, <<high, high_prev, low, low_prev, close_prev>>: an up move,
\* a down move, no move at all (both directional averages stay zero) and an outside bar
AdxMoves ==
  {<<FromInt(3), FromInt(2), FromInt(1), FromInt(1), FromInt(2)>>,
   <<FromInt(2), FromInt(2), FromInt(0), FromInt(1), FromInt(1)>>,
   <<FromInt(2), FromInt(2), FromInt(1), FromInt(1), FromInt(1)>>,
   <<FromInt(3), FromInt(1), FromInt(0), FromInt(1), FromInt(2)>>}

AdxStart == \E p \in Periods : ind = [obj |-> AdxNew(p), period |-> p, feeds |-> 0]

\* fed until one candle past the one that seeds the outer average
AdxFeed ==
  \E c \in AdxMoves :
    /\ ind.feeds < 2 * ind.period
    /\ ind' = [ind EXCEPT !.obj = AdxNext(ind.obj, c[1], c[2], c[3], c[4], c[5]),
                          !.feeds = ind.feeds + 1]
    /\ UNCHANGED <<coreVars, ej, kp, hs, lv, dec, cf, fd>>

(***************************************************************************)
(* Rsi and StochRsi                                                        *)
(***************************************************************************)
RsiNew(period) ==
  [smoothed_upward_change   |-> EmaNewWithConstant(period, FDiv(FromInt(1), FromInt(period))),
   smoothed_downward_change |-> EmaNewWithConstant(period, FDiv(FromInt(1), FromInt(period))),
   value |-> None]

\* <<upward_change, downward_change>>
RsiChanges(close_now, close_prev) ==
  IF FLt(FSub(close_now, close_prev), F64Epsilon)
     /\ FGt(FSub(close_now, close_prev), FNeg(F64Epsilon))
  THEN <<0, 0>>
  ELSE IF FGt(close_now, close_prev) THEN <<FSub(close_now, close_prev), 0>>
  ELSE <<0, FSub(close_prev, close_now)>>

\* the rest of Rsi::next, given the two smoothers after their feed
RsiWith(r, up, down) ==
  [smoothed_upward_change |-> up, smoothed_downward_change |-> down,
   value |-> IF IsSome(EmaGet(up)) /\ IsSome(EmaGet(down))
             THEN Some(FSub(FromInt(100),
                            FDiv(FromInt(100),
                                 FAdd(FromInt(1), FDiv(Unwrap(EmaGet(up)), Unwrap(EmaGet(down)))))))
             ELSE r.value]

RsiNext(r, close_now, close_prev) ==
  RsiWith(r, EmaNext(r.smoothed_upward_change, RsiChanges(close_now, close_prev)[1]),
             EmaNext(r.smoothed_downward_change, RsiChanges(close_now, close_prev)[2]))

RsiGet(r) == r.value

StochRsiNew(period) ==
  [rsi |-> RsiNew(period), maximum |-> MaxNew(period), minimum |-> MinNew(period),
   value |-> SmaNew(3)]

\* 100 * (rsi - min) / (max - min)
StochRsiRatio(rsi, max, min) == FDiv(FMul(FromInt(100), FSub(rsi, min)), FSub(max, min))

\* the body of `if let Some(rsi)`, given the relative strength and the two extremes
\* after their feed
StochRsiFed(s, rsi, maximum, minimum) ==
  [rsi |-> rsi, maximum |-> maximum, minimum |-> minimum,
   value |-> IF IsSome(MaxGet(maximum)) /\ IsSome(MinGet(minimum))
             THEN SmaNext(s.value, StochRsiRatio(Unwrap(RsiGet(rsi)),
                                                 Unwrap(MaxGet(maximum)),
                                                 Unwrap(MinGet(minimum))))
             ELSE s.value]

StochRsiWith(s, rsi) ==
  IF IsSome(RsiGet(rsi))
  THEN StochRsiFed(s, rsi, MaxNext(s.maximum, Unwrap(RsiGet(rsi))),
                           MinNext(s.minimum, Unwrap(RsiGet(rsi))))
  ELSE [s EXCEPT !.rsi = rsi]

StochRsiNext(s, close, close_prev) == StochRsiWith(s, RsiNext(s.rsi, close, close_prev))

StochRsiGet(s) == SmaGet(s.value)

\* what a call divided, Some(<<rsi, max, min>>), or None when it divided nothing
StochRsiDivided(t) ==
  IF IsSome(RsiGet(t.rsi)) /\ IsSome(MaxGet(t.maximum)) /\ IsSome(MinGet(t.minimum))
  THEN Some(<<Unwrap(RsiGet(t.rsi)), Unwrap(MaxGet(t.maximum)), Unwrap(MinGet(t.minimum))>>)
  ELSE None

StochStart ==
  \E p \in Periods : ind = [obj |-> StochRsiNew(p), period |-> p, feeds |-> 0, divided |-> None]

StochFeed ==
  \E close \in Samples, close_prev \in Samples :
    /\ ind.feeds < MaxFeeds
    /\ \E t \in {StochRsiNext(ind.obj, close, close_prev)} :
         ind' = [ind EXCEPT !.obj = t, !.feeds = ind.feeds + 1,
                            !.divided = StochRsiDivided(t)]
    /\ UNCHANGED <<coreVars, ej, kp, hs, lv, dec, cf, fd>>

(***************************************************************************)
(* binance::Kline::from_bytes and the candle of a live tick                *)
(***************************************************************************)
\* the locals of Kline::from_bytes before its loop
FromBytesNew ==
  [pc |-> "ok", open |-> 0, high |-> 0, low |-> 0, close |-> 0,
   open_time |-> [secs |-> 1004508300, millis |-> 0]]

\* Kline::from_bytes from byte `count` on; i is the start of the token being read
\* (None while found_i is false), index the field it belongs to
RECURSIVE FromBytesFrom(_, _, _, _, _)
FromBytesFrom(slice, count, i, index, kline) ==
  IF count > Len(slice) THEN kline
  ELSE LET element == slice[count]
           i1 == IF IsAsciiDigit(element) /\ i = None THEN Some(count) ELSE i
       IN IF i1 # None /\ element \in {Quote, ","}
            THEN LET s == SubSeq(slice, i1[1], count - 1)
                     i64 == ParseI64(s)
                     f64 == ParseF64(s)
                     bad == [kline EXCEPT !.pc = "panic"]
                 IN CASE index = 0 -> IF i64 = None THEN bad
                           ELSE FromBytesFrom(slice, count + 1, None, 1,
                                  [kline EXCEPT !.open_time = TimestampMillis(i64[1])])
                      [] index = 1 -> IF f64 = None THEN bad
                           ELSE FromBytesFrom(slice, count + 1, None, 2,
                                              [kline EXCEPT !.open = f64[1]])
                      [] index = 2 -> IF f64 = None THEN bad
                           ELSE FromBytesFrom(slice, count + 1, None, 3,
                                              [kline EXCEPT !.high = f64[1]])
                      [] index = 3 -> IF f64 = None THEN bad
                           ELSE FromBytesFrom(slice, count + 1, None, 4,
                                              [kline EXCEPT !.low = f64[1]])
                      [] index = 4 -> IF f64 = None THEN bad
                           ELSE [kline EXCEPT !.close = f64[1]]
                      [] OTHER -> FromBytesFrom(slice, count + 1, None, index + 1, kline)
            ELSE FromBytesFrom(slice, count + 1, i1, index, kline)

FromBytes(slice) == FromBytesFrom(slice, 1, None, 0, FromBytesNew)

\* the first five fields of a row as the exchange writes them
RowTokens(c) ==
  <<DigitsOf(c.open_time), PriceToken(c.open), PriceToken(c.high), PriceToken(c.low),
    PriceToken(c.close)>>

\* a response body: the whole series of one candle, or a body cut down to the first
\* k < 5 fields of its row (k = 0: the empty array)
RECURSIVE TokensJoined(_, _)
TokensJoined(toks, k) ==
  IF k = 0 THEN <<>>
  ELSE IF k = 1 THEN toks[1]
  ELSE TokensJoined(toks, k - 1) \o <<",">> \o toks[k]
Payload(c, k) ==
  IF k = 0 THEN <<"[", "]">>
  ELSE IF k >= 5 THEN KlineText(<<c>>)
  ELSE <<"[", "[">> \o TokensJoined(RowTokens(c), k) \o <<"]", "]">>

\* the bytes of a response, how many numeric fields they hold, the candle before it,
\* the two indicators of the live loop and the candle the parser returned
CandleNew(c, k, before, fn) ==
  [bytes |-> Payload(c, k), tokens |-> k, fn |-> fn, pc |-> "call", prev_kline |-> before,
   bb |-> BBNew(2, FromInt(2)), adx |-> AdxNew(2), kline |-> None, fed |-> <<>>]

CandleStart ==
  \E c \in KlineChoices, k \in 0..5, before \in KlineChoices,
     fn \in {"from_bytes", "parse_array"} :
    fd = CandleNew(c, k, before, fn)

\* the Timeout arm of the live loop from the parse of the response to the feed of the
\* two indicators
LiveParseAndFeed ==
  /\ fd.fn = "from_bytes" /\ fd.pc = "call"
  /\ \E kline \in {FromBytes(fd.bytes)} :
       IF kline.pc = "panic"
       THEN fd' = [fd EXCEPT !.pc = "panic"]
       ELSE fd' = [fd EXCEPT !.pc = "fed", !.kline = Some(kline),
                     !.bb = BBNext(fd.bb, kline.close),
                     !.adx = AdxNext(fd.adx, kline.high, fd.prev_kline.high, kline.low,
                                     fd.prev_kline.low, fd.prev_kline.close),
                     !.fed = Append(fd.fed, kline.close)]
  /\ UNCHANGED <<coreVars, ej, kp, hs, lv, ind, dec, cf>>

\* a call of exchange::Kline::parse_array on the same bytes
ParseArrayCall ==
  /\ fd.fn = "parse_array" /\ fd.pc = "call"
  /\ \E kline \in {ParseArray(fd.bytes)} :
       IF kline.pc = "panic"
       THEN fd' = [fd EXCEPT !.pc = "panic"]
       ELSE fd' = [fd EXCEPT !.pc = "ret", !.kline = Some(kline)]
  /\ UNCHANGED <<coreVars, ej, kp, hs, lv, ind, dec, cf>>

(***************************************************************************)
(* get_required_data in replay: the exchange, the cache file, the runs     *)
(***************************************************************************)
\* the candles a request may return: the program asks for 1000
Limit == 2
\* the runs of the program on one cache file
MaxRuns == 3
\* the closed candles the exchange holds open at 0, 1, .. ExLast minutes
ExLast == 7

\* Interval::Minute(1).to_millis()
MinuteMillis == 60000

ExCandle(n) ==
  [open_time |-> n * MinuteMillis, open |-> FromInt(1) + n, high |-> FromInt(2) + n,
   low |-> 16, close |-> FromInt(1) + 250 + n]

RECURSIVE ExSeries(_, _)
ExSeries(lo, hi) == IF lo > hi THEN <<>> ELSE <<ExCandle(lo)>> \o ExSeries(lo + 1, hi)

\* the body of a successful answer to get_kline_data(start_time, end_time, limit): the
\* candles that open from start_time to end_time, the first `limit` of them, or the
\* last `limit` when no start_time is given
ExResponse(start_time, end_time, limit) ==
  LET from == IF start_time = None THEN 0
              ELSE (Unwrap(start_time) + MinuteMillis - 1) \div MinuteMillis
      upto == IF end_time < 0 THEN 0 - 1
              ELSE IF end_time \div MinuteMillis > ExLast THEN ExLast
              ELSE end_time \div MinuteMillis
  IN  IF start_time = None
      THEN KlineText(ExSeries(IF upto - limit + 1 > from THEN upto - limit + 1 ELSE from, upto))
      ELSE KlineText(ExSeries(from, IF from + limit - 1 < upto THEN from + limit - 1 ELSE upto))

\* the loop of parse_kline_body over bytes lo..hi of a buffer, by halves
RECURSIVE KlineBodyBytes(_, _, _, _)
KlineBodyBytes(s, bytes, lo, hi) ==
  IF lo > hi \/ s.pc = "panic" THEN s
  ELSE IF lo = hi THEN KlineBodyByte(s, bytes[lo])
  ELSE KlineBodyBytes(KlineBodyBytes(s, bytes, lo, (lo + hi) \div 2),
                      bytes, (lo + hi) \div 2 + 1, hi)

ParseKlineBody(bytes) == KlinesOf(KlineBodyBytes(KlinesNew, bytes, 1, Len(bytes)))

\* data_count and iteration of get_required_data
DataCount(start_time, end_time) == (end_time - start_time) \div MinuteMillis
Iteration(start_time, end_time) ==
  IF DataCount(start_time, end_time) % Limit = 0
  THEN DataCount(start_time, end_time) \div Limit
  ELSE DataCount(start_time, end_time) \div Limit + 1

\* the request for the candles before start_time, and the i-th request of the loop
WarmResponse(start_time) == ExResponse(None, start_time - MinuteMillis, Limit)
IterResponse(start_time, end_time, i) ==
  ExResponse(Some(start_time + i * MinuteMillis * Limit), end_time, Limit)

\* the file of one key (None: no such file), the number of runs so far, and the run in
\* progress: its parameters, its place in get_required_data, whether it found the
\* file, the requests it sent and the series it returned
CacheNew ==
  [file |-> None, runs |-> 0, pc |-> "idle", start_time |-> 0, end_time |-> 0, i |-> 0,
   cached |-> FALSE, requests |-> 0, loaded |-> None]

CacheStart == cf = CacheNew

\* a replay starts at minute 3 or 4 of the same day, to end 1, 2 or 3 minutes later,
\* and opens the file with create_new
GetRequiredData ==
  /\ cf.pc \in {"idle", "done", "panic"} /\ cf.runs < MaxRuns
  /\ \E start \in {3, 4}, len \in 1..3 :
       cf' = [cf EXCEPT !.runs = cf.runs + 1, !.start_time = start * MinuteMillis,
                        !.end_time = (start + len) * MinuteMillis,
                        !.i = 0, !.requests = 0, !.loaded = None,
                        !.cached = cf.file # None,
                        !.file = IF cf.file = None THEN Some(<<>>) ELSE @,
                        !.pc = IF cf.file = None THEN "warm" ELSE "read"]
  /\ UNCHANGED <<coreVars, ej, kp, hs, lv, ind, dec, fd>>

\* the first request, for the candles before start_time: written to the file, or the
\* run ends in expect()
FetchWarm ==
  /\ cf.pc = "warm"
  /\ \E ok \in BOOLEAN :
       cf' = IF ok
             THEN [cf EXCEPT !.requests = cf.requests + 1, !.pc = "iter",
                             !.file = Some(Unwrap(cf.file) \o WarmResponse(cf.start_time))]
             ELSE [cf EXCEPT !.requests = cf.requests + 1, !.pc = "panic"]
  /\ UNCHANGED <<coreVars, ej, kp, hs, lv, ind, dec, fd>>

\* one request of the loop
FetchIter ==
  /\ cf.pc = "iter" /\ cf.i < Iteration(cf.start_time, cf.end_time)
  /\ \E ok \in BOOLEAN :
       cf' = IF ok
             THEN [cf EXCEPT !.requests = cf.requests + 1, !.i = cf.i + 1,
                             !.file = Some(Unwrap(cf.file)
                                           \o IterResponse(cf.start_time, cf.end_time, cf.i))]
             ELSE [cf EXCEPT !.requests = cf.requests + 1, !.pc = "panic"]
  /\ UNCHANGED <<coreVars, ej, kp, hs, lv, ind, dec, fd>>

\* the file is read back, after the loop or when it was found to exist, and parsed
ReadFile ==
  /\ \/ cf.pc = "iter" /\ cf.i = Iteration(cf.start_time, cf.end_time)
     \/ cf.pc = "read"
  /\ \E klines \in {ParseKlineBody(Unwrap(cf.file))} :
       cf' = [cf EXCEPT !.loaded = Some(klines),
                        !.pc = IF klines.pc = "panic" THEN "panic" ELSE "done"]
  /\ UNCHANGED <<coreVars, ej, kp, hs, lv, ind, dec, fd>>

(***************************************************************************)
(* live(): the history request, the polling loop and what they feed        *)
(***************************************************************************)
\* the clock of this part advances by a third of a candle
ClockStep == MinuteMillis \div 3

\* the exchange at time `now`: it holds the candles that have opened by then
ExResponseAt(now, start_time, end_time, limit) ==
  ExResponse(start_time, IF end_time < now THEN end_time ELSE now, limit)

\* mutant: the history is requested up to prev_time, as in replay
LiveHistoryResponsePrev(now, start_time) ==
  ExResponseAt(now, None, start_time - MinuteMillis, Limit)

\* the Live arm of get_required_data
LiveHistoryResponse(now, start_time) ==
  ExResponseAt(now, None, (start_time - MinuteMillis) - MinuteMillis, Limit)

\* Klines::last, and the candle at an index of the columns
KlinesAt(data, index) ==
  [open |-> data.open[index], high |-> data.high[index], low |-> data.low[index],
   close |-> data.close[index], open_time |-> data.open_time[index]]
KlinesLast(data) == KlinesAt(data, Len(data.close))

\* the first loop of live(): every loaded candle is fed to the two indicators
RECURSIVE FeedHistory(_, _, _)
FeedHistory(t, data, index) ==
  IF index > Len(data.close) THEN t
  ELSE FeedHistory([TraderFeed(t, KlinesAt(data, index))
                     EXCEPT !.prev_kline = Some(KlinesAt(data, index))],
                   data, index + 1)

\* a live Trader constructed at time `now`: the indicators of live(), the series it
\* loaded, the boundary it waits for, and what it requested and fed tick by tick
FeedNew(now) ==
  [now |-> now, start_time |-> StartTime(now, MinuteMillis), pc |-> "history",
   close_time |-> 0, data |-> None,
   t |-> [bb |-> BBNew(BBPeriod, FromInt(2)), adx |-> AdxNew(AdxPeriod), prev_kline |-> None],
   polls |-> <<>>, fed |-> <<>>, prevs |-> <<>>]

FeedStart ==
  \E now \in {2 * MinuteMillis, 2 * MinuteMillis + ClockStep, 3 * MinuteMillis - 1,
             3 * MinuteMillis} :
    fd = FeedNew(now)

FeedClock ==
  /\ fd.now + ClockStep <= ExLast * MinuteMillis
  /\ fd' = [fd EXCEPT !.now = @ + ClockStep]
  /\ UNCHANGED <<coreVars, ej, kp, hs, lv, ind, dec, cf>>

\* get_required_data and the loop over the loaded candles
LiveHistory ==
  /\ fd.pc = "history"
  /\ \E data \in {ParseKlineBody(LiveHistoryResponse(fd.now, fd.start_time))} :
       fd' = [fd EXCEPT !.data = Some(data),
                        !.t = FeedHistory(fd.t, data, 1),
                        !.close_time = fd.start_time - 1,
                        !.pc = "wait"]
  /\ UNCHANGED <<coreVars, ej, kp, hs, lv, ind, dec, cf>>

\* the timeout is computed: a boundary already passed gives a wait without end
FeedWait ==
  /\ fd.pc = "wait"
  /\ fd' = [fd EXCEPT !.pc = IF fd.close_time - fd.now < 0 THEN "stuck" ELSE "sleep"]
  /\ UNCHANGED <<coreVars, ej, kp, hs, lv, ind, dec, cf>>

\* the Timeout arm up to the feed: one candle is requested for the boundary, parsed
\* and fed, and the boundary moves on
FeedTimeout ==
  /\ fd.pc = "sleep" /\ fd.now >= fd.close_time
  /\ \E kline \in {FromBytes(ExResponseAt(fd.now, None, fd.close_time, 1))} :
       fd' = [fd EXCEPT !.polls = Append(@, fd.close_time),
                        !.fed = Append(@, kline),
                        !.prevs = Append(@, Unwrap(fd.t.prev_kline)),
                        !.t = [TraderFeed(fd.t, kline) EXCEPT !.prev_kline = Some(kline)],
                        !.close_time = fd.close_time + MinuteMillis,
                        !.pc = "wait"]
  /\ UNCHANGED <<coreVars, ej, kp, hs, lv, ind, dec, cf>>

(***************************************************************************)
(* An Sma or a StandardDeviation fed any f64, NaN included                 *)
(***************************************************************************)
\* two ordinary samples and the value the buffers are constructed with
AnySamples == {FromInt(1), FromInt(MaxSample), NaN}

FillStart ==
  \E p \in Periods :
    \/ ind = [kind |-> "Sma", obj |-> SmaNew(p), fed |-> <<>>]
    \/ ind = [kind |-> "StandardDeviation", obj |-> StdNew(p), fed |-> <<>>]

FillFeed ==
  \E v \in AnySamples :
    /\ Len(ind.fed) < MaxFeeds
    /\ ind' = [ind EXCEPT !.obj = IF ind.kind = "Sma" THEN SmaNext(ind.obj, v)
                                   ELSE StdNext(ind.obj, v),
                          !.fed = Append(ind.fed, v)]
    /\ UNCHANGED <<coreVars, ej, kp, hs, lv, dec, cf, fd>>

(***************************************************************************)
(* An Adx fed candles without movement and candles without range           *)
(***************************************************************************)
\* <<high, high_prev, low, low_prev, close_prev>>: an up move, a down move, a candle
\* that repeats the previous one (+DM = -DM = 0) and a candle without any range
\* (true range 0)
AdxRunMoves ==
  {<<FromInt(3), FromInt(2), FromInt(1), FromInt(1), FromInt(2)>>,
   <<FromInt(2), FromInt(2), FromInt(0), FromInt(1), FromInt(1)>>,
   <<FromInt(2), FromInt(2), FromInt(1), FromInt(1), FromInt(1)>>,
   <<FromInt(2), FromInt(2), FromInt(2), FromInt(2), FromInt(2)>>}

\* the oscillator value of a feed, from the three inner averages after the feed:
\* None while one of them is unavailable
Oscillator(spdm, smdm, atr) ==
  IF IsSome(EmaGet(spdm)) /\ IsSome(EmaGet(smdm)) /\ IsSome(AtrGet(atr))
  THEN LET pdi == FMul(FDiv(Unwrap(EmaGet(spdm)), Unwrap(AtrGet(atr))), FromInt(100))
           mdi == FMul(FDiv(Unwrap(EmaGet(smdm)), Unwrap(AtrGet(atr))), FromInt(100))
       IN  Some(FMul(FAbs(FDiv(FSub(pdi, mdi), FAdd(pdi, mdi))), FromInt(100)))
  ELSE None

\* the Adx, its period, the number of feeds, the raw movements and the oscillator
\* value of the last feed, and whether some feed had an oscillator value of NaN
AdxRunStart ==
  \E p \in Periods :
    ind = [obj |-> AdxNew(p), period |-> p, feeds |-> 0, pdm |-> 0, mdm |-> 0,
           osc |-> None, poisoned |-> FALSE, move |-> <<>>]

AdxRunFeed ==
  \E c \in AdxRunMoves :
    \E pdm \in {Pdm(c[1], c[2], c[3], c[4])}, mdm \in {Mdm(c[1], c[2], c[3], c[4])} :
      \E osc \in {Oscillator(EmaNext(ind.obj.spdm, pdm), EmaNext(ind.obj.smdm, mdm),
                             AtrNext(ind.obj.atr, c[1], c[5], c[3]))} :
        /\ ind.feeds < 2 * ind.period
        /\ ind' = [ind EXCEPT !.obj = AdxNext(ind.obj, c[1], c[2], c[3], c[4], c[5]),
                              !.feeds = ind.feeds + 1,
                              !.pdm = pdm, !.mdm = mdm, !.osc = osc,
                              !.poisoned = @ \/ osc = Some(NaN),
                              !.move = c]
        /\ UNCHANGED <<coreVars, ej, kp, hs, lv, dec, cf, fd>>

(***************************************************************************)
(* An Adx fed as the Trader feeds it: each candle against the one before   *)
(***************************************************************************)
\* every candle on the grid of ordinary samples with low <= close <= high
GridCandles ==
  {[high |-> h, low |-> l, close |-> c] : h \in Samples, l \in Samples, c \in Samples}
    \cap {k \in [high : Samples, low : Samples, close : Samples] :
            k.low <= k.close /\ k.close <= k.high}

DmStart ==
  \E p \in Periods, k \in GridCandles :
    ind = [obj |-> AdxNew(p), atr |-> AtrNew(p), period |-> p, feeds |-> 0,
           k |-> k, prev |-> k, pdm |-> 0, mdm |-> 0]

\* adx.next(k.high, prev.high, k.low, prev.low, prev.close), and the same candle to an
\* Atr of the same period on its own; the first candle is only ever a previous candle,
\* two more are fed
DmFeed ==
  \E k \in GridCandles :
    /\ ind.feeds < 2
    /\ ind' = [ind EXCEPT
                 !.obj = AdxNext(ind.obj, k.high, ind.k.high, k.low, ind.k.low, ind.k.close),
                 !.atr = AtrNext(ind.atr, k.high, ind.k.close, k.low),
                 !.feeds = ind.feeds + 1,
                 !.k = k, !.prev = ind.k,
                 !.pdm = Pdm(k.high, ind.k.high, k.low, ind.k.low),
                 !.mdm = Mdm(k.high, ind.k.high, k.low, ind.k.low)]
    /\ UNCHANGED <<coreVars, ej, kp, hs, lv, dec, cf, fd>>

(***************************************************************************)
(* An Atr next to an Ema with the constant 1/period, fed the true range    *)
(***************************************************************************)
\* max(high, prevClose) - min(low, prevClose) of three numbers
TrueRange(high, close_prev, low) ==
  (IF high > close_prev THEN high ELSE close_prev) - (IF low < close_prev THEN low ELSE close_prev)

\* the two objects, the true range of the last feed and the number of feeds
AtrStart ==
  \E p \in Periods :
    ind = [atr |-> AtrNew(p),
           ema |-> EmaNewWithConstant(p, FDiv(FromInt(1), FromInt(p))),
           period |-> p, tr |-> 0, feeds |-> 0]

\* any three numbers of the grid, in any order of size
AtrFeed ==
  \E high \in Samples, close_prev \in Samples, low \in Samples :
    /\ ind.feeds < MaxFeeds
    /\ ind' = [ind EXCEPT !.atr = AtrNext(ind.atr, high, close_prev, low),
                          !.ema = EmaNext(ind.ema, TrueRange(high, close_prev, low)),
                          !.tr = TrueRange(high, close_prev, low),
                          !.feeds = ind.feeds + 1]
    /\ UNCHANGED <<coreVars, ej, kp, hs, lv, dec, cf, fd>>

(***************************************************************************)
(* One evaluation of the entry predicates of both loops on given readings  *)
(***************************************************************************)
\* a Trader whose indicators report the given mean and deviation (BollingerBand of
\* multiplier 2.0) and the given trend strength and directional averages (true range 1.0)
TraderReading(mean, deviation, adx_val, pdm, mdm) ==
  [TraderNew("Backtest", FromInt(100), [quote |-> 0, base |-> 0], 2) EXCEPT
     !.bb = BBWith(@, [@.typical_price EXCEPT !.value = Some(mean)],
                      [@.dev EXCEPT !.value = Some(deviation)]),
     !.adx = [@ EXCEPT !.spdm.value = Some(pdm), !.smdm.value = Some(mdm),
                       !.atr.value = Some(FromInt(1)), !.value = Some(adx_val)]]

\* deviations 0.0, 0.5 and 1.0; trend strengths on both sides of 15 and of 25, and NaN
Deviations  == {0, Scale \div 2, Scale}
Strengths   == {FromInt(10), FromInt(15), FromInt(20), FromInt(25), FromInt(30), NaN}
\* +DI above -DI and the reverse
Directions  == {<<3 * (Scale \div 10), Scale \div 10>>, <<Scale \div 10, 3 * (Scale \div 10)>>}
\* lows and closes in steps of 0.5 around the bands
HalfSteps   == {k * (Scale \div 2) : k \in 0..(2 * MaxSample)}

DecStart ==
  \E mean \in {FromInt(MaxSample - 1), FromInt(MaxSample)}, deviation \in Deviations,
     adx_val \in Strengths, d \in Directions :
    dec = [t |-> TraderReading(mean, deviation, adx_val, d[1], d[2]), evaluated |-> FALSE,
           k |-> [high |-> 0, low |-> 0, close |-> 0],
           dip_replay |-> FALSE, ma_replay |-> FALSE, dip_live |-> FALSE, ma_live |-> FALSE]

\* the four predicates as the two loops compute them for a flat position
DecEvaluate ==
  \E low \in HalfSteps, close \in HalfSteps :
    \E k \in {[high |-> FMax(low, close), low |-> low, close |-> close]} :
      /\ ~dec.evaluated
      /\ dec' = [dec EXCEPT !.evaluated = TRUE, !.k = k,
                            !.dip_replay = BacktestBbLowerCondition(dec.t, k),
                            !.ma_replay = BacktestMovingAverageCondition(dec.t, k),
                            !.dip_live = LiveBbLowerCondition(dec.t, k),
                            !.ma_live = LiveMovingAverageCondition(dec.t, k)]
      /\ UNCHANGED <<coreVars, ej, kp, hs, lv, ind, cf, fd>>

\* a component no action of the specification touches stays as constructed
SmaIdle == sma = SmaNew(1) /\ smaWin = <<>>
SdIdle  == sd = StdNew(1) /\ sdWin = <<>>
ExtIdle == mx = MaxNew(1) /\ mn = MinNew(1) /\ extWin = <<>>
TdIdle  == TdStart
TrIdle  ==
  /\ tr = TraderNew("Backtest", FromInt(100), [quote |-> 0, base |-> 0], 2)
  /\ obs = ObsNew(0, <<"up">>, 0)

CoreIdle == SmaIdle /\ SdIdle /\ ExtIdle /\ TdIdle /\ TrIdle
EjIdle == ej = EjNew(<<>>, 0, <<>>, "code_first")
KpIdle == kp = KpNew(<<>>, "parse_kline_body")
HsIdle == hs = HsNew(<<>>, 0, "skip_value", "Other", <<>>, <<>>)
LvIdle == lv = LiveNew(0, 0)
IndIdle == ind = <<>>
DecIdle == dec = <<>>
CfIdle == cf = <<>>
FdIdle == fd = <<>>
RunIdle == IndIdle /\ DecIdle /\ CfIdle /\ FdIdle
IoIdle == EjIdle /\ KpIdle /\ HsIdle /\ LvIdle /\ RunIdle

InitSma == SmaStart /\ SdIdle /\ ExtIdle /\ TdIdle /\ TrIdle /\ IoIdle
InitStd == SmaIdle /\ SdStart /\ ExtIdle /\ TdIdle /\ TrIdle /\ IoIdle
InitExt == SmaIdle /\ SdIdle /\ ExtStart /\ TdIdle /\ TrIdle /\ IoIdle
InitTd  == SmaIdle /\ SdIdle /\ ExtIdle /\ TdStart /\ TrIdle /\ IoIdle

SpecSma == InitSma /\ [][SmaFeed]_vars
SpecStd == InitStd /\ [][StdFeed]_vars
SpecExt == InitExt /\ [][ExtFeed]_vars
SpecTd  == InitTd /\ [][TdFeed]_vars

InitTrade == SmaIdle /\ SdIdle /\ ExtIdle /\ TdIdle /\ TraderStart /\ IoIdle
NextTrade == BacktestStep \/ LiveLoad \/ LiveTick
SpecTrade == InitTrade /\ [][NextTrade]_vars

InitJson == CoreIdle /\ EjStart /\ KpIdle /\ HsIdle /\ LvIdle /\ RunIdle
SpecJson == InitJson /\ [][ErrorFromJson]_vars

InitKlines == CoreIdle /\ EjIdle /\ KpStart /\ HsIdle /\ LvIdle /\ RunIdle
NextKlines == ParseKlineBodyStep \/ Parse2dArrayStep
SpecKlines == InitKlines /\ [][NextKlines]_vars

InitSkip == CoreIdle /\ EjIdle /\ KpIdle /\ SkipStart /\ LvIdle /\ RunIdle
SpecSkip == InitSkip /\ [][SkipValueCall]_vars

InitFind == CoreIdle /\ EjIdle /\ KpIdle /\ FindStart /\ LvIdle /\ RunIdle
NextFind == FindKeyStep \/ FindPairStep
SpecFind == InitFind /\ [][NextFind]_vars

\* the main thread and the task are scheduled and the calls in flight return;
\* the clock and the keyboard are under no obligation
InitEma == CoreIdle /\ EjIdle /\ KpIdle /\ HsIdle /\ LvIdle /\ EmaStart /\ DecIdle /\ CfIdle /\ FdIdle
SpecEma == InitEma /\ [][EmaFeed]_vars

InitBB == CoreIdle /\ EjIdle /\ KpIdle /\ HsIdle /\ LvIdle /\ BBStart /\ DecIdle /\ CfIdle /\ FdIdle
SpecBB == InitBB /\ [][BBFeed]_vars

InitAdx == CoreIdle /\ EjIdle /\ KpIdle /\ HsIdle /\ LvIdle /\ AdxStart /\ DecIdle /\ CfIdle /\ FdIdle
SpecAdx == InitAdx /\ [][AdxFeed]_vars

InitStoch == CoreIdle /\ EjIdle /\ KpIdle /\ HsIdle /\ LvIdle /\ StochStart /\ DecIdle /\ CfIdle /\ FdIdle
SpecStoch == InitStoch /\ [][StochFeed]_vars

InitCandle == CoreIdle /\ EjIdle /\ KpIdle /\ HsIdle /\ LvIdle /\ IndIdle /\ DecIdle /\ CfIdle /\ CandleStart
NextCandle == LiveParseAndFeed \/ ParseArrayCall
SpecCandle == InitCandle /\ [][NextCandle]_vars

InitCache == CoreIdle /\ EjIdle /\ KpIdle /\ HsIdle /\ LvIdle /\ IndIdle /\ DecIdle /\ CacheStart /\ FdIdle
NextCache == GetRequiredData \/ FetchWarm \/ FetchIter \/ ReadFile
SpecCache == InitCache /\ [][NextCache]_vars

InitFeed == CoreIdle /\ EjIdle /\ KpIdle /\ HsIdle /\ LvIdle /\ IndIdle /\ DecIdle /\ CfIdle /\ FeedStart
NextFeed == FeedClock \/ LiveHistory \/ FeedWait \/ FeedTimeout
SpecFeed == InitFeed /\ [][NextFeed]_vars

InitFill == CoreIdle /\ EjIdle /\ KpIdle /\ HsIdle /\ LvIdle /\ FillStart /\ DecIdle /\ CfIdle /\ FdIdle
SpecFill == InitFill /\ [][FillFeed]_vars

InitAdxRun == CoreIdle /\ EjIdle /\ KpIdle /\ HsIdle /\ LvIdle /\ AdxRunStart /\ DecIdle /\ CfIdle /\ FdIdle
SpecAdxRun == InitAdxRun /\ [][AdxRunFeed]_vars

InitDm == CoreIdle /\ EjIdle /\ KpIdle /\ HsIdle /\ LvIdle /\ DmStart /\ DecIdle /\ CfIdle /\ FdIdle
SpecDm == InitDm /\ [][DmFeed]_vars

InitAtr == CoreIdle /\ EjIdle /\ KpIdle /\ HsIdle /\ LvIdle /\ AtrStart /\ DecIdle /\ CfIdle /\ FdIdle
SpecAtr == InitAtr /\ [][AtrFeed]_vars

InitDec == CoreIdle /\ EjIdle /\ KpIdle /\ HsIdle /\ LvIdle /\ IndIdle /\ DecStart /\ CfIdle /\ FdIdle
SpecDec == InitDec /\ [][DecEvaluate]_vars

InitLive == CoreIdle /\ EjIdle /\ KpIdle /\ HsIdle /\ LiveStart /\ RunIdle
NextLive == ClockTick \/ AuxReadQuit \/ AuxEof \/ AuxExit \/ MainStep
SpecLive == InitLive /\ [][NextLive]_vars /\ WF_vars(MainStep) /\ WF_vars(AuxExit)

(***************************************************************************)
(* Claims on the indicators                                                *)
(***************************************************************************)

\* the candle last processed, and whether it reached the decision code
Kline == Unwrap(obs.kline)
Produced(side) == \E i \in 1..Len(obs.out) : obs.out[i] = side

\* C1: in replay and in live, an evaluation produces a Buy only when no base amount was
\* held when the candle arrived, and a Sell only when some was.
C1_BuyOnlyFlatSellOnlyHolding ==
  /\ Produced("Buy") => obs.base_before = 0
  /\ Produced("Sell") => obs.base_before # 0

\* a live session that bought and now sells what it bought
C1_Witness ==
  /\ tr.mode = "Live" /\ tr.pc = "run"
  /\ obs.orders = <<"Buy", "Sell">> /\ obs.out = <<"Sell">>
  /\ obs.base_before > 0 /\ tr.base = 0

\* a candle of a session that is past its start time and has every indicator value
Evaluated == obs.n > obs.hist /\ Ready(tr)

\* no Buy directly follows a Buy, and after a Buy that the exchange took a base amount is held
BuyOnce ==
  /\ \A i \in 1..(Len(obs.orders) - 1) : obs.orders[i] = "Buy" => obs.orders[i + 1] = "Sell"
  /\ (Produced("Buy") /\ tr.pc = "run") => tr.base # 0

\* C2 as stated: starting Flat, whenever a candle's close drops below the lower band a Buy
\* is produced, and no further Buy is produced until a Sell has returned the position to Flat.
C2_AsStated ==
  /\ (Evaluated /\ obs.base_before = 0 /\ FLt(Kline.close, BbLower(tr))) => Produced("Buy")
  /\ BuyOnce

\* C2, amended: starting Flat, whenever a candle's close drops below the lower band while
\* the trend strength is below 15 a Buy is produced; the position then leaves Flat, and no
\* further Buy is produced on any later candle until a Sell has returned it to Flat.
C2_BuyOnceUntilSell ==
  /\ (Evaluated /\ obs.base_before = 0 /\ FLt(Kline.close, BbLower(tr))
        /\ FLt(AdxVal(tr), FromInt(15))) => Produced("Buy")
  /\ BuyOnce

\* a position is held since a Buy, the candle closes below the lower band at a trend
\* strength below 15, and nothing is bought
C2_Witness ==
  /\ obs.orders = <<"Buy">> /\ obs.out = <<>> /\ obs.base_before # 0
  /\ Evaluated /\ FLt(Kline.close, BbLower(tr)) /\ FLt(AdxVal(tr), FromInt(15))

\* C3: an evaluation issues at most one order, never a Buy and a Sell together, and the
\* position changes between Flat and not Flat only with an order.
C3_OneOrderPerEvaluation ==
  /\ Len(obs.out) <= 1
  /\ ~(Produced("Buy") /\ Produced("Sell"))
  /\ ((obs.base_before = 0) # (tr.base = 0)) => Len(obs.out) = 1

\* a replay Buy on a candle that closes above the upper band: the exit rule holds of the
\* position just taken, and no Sell follows in the same evaluation
C3_Witness ==
  /\ tr.mode = "Backtest" /\ obs.out = <<"Buy">>
  /\ FGt(Kline.close, BbUpper(tr))

\* C4: an order is produced only on a candle for which the Bollinger value and all three
\* ADX outputs exist, never before the 28th candle of the series, and in replay never on a
\* candle that opens before start_time.
C4_NoOrderBeforeWarmUp ==
  obs.out # <<>> =>
    /\ IsSome(BBGet(tr.bb))
    /\ IsSome(AdxGet(tr.adx)[1]) /\ IsSome(AdxGet(tr.adx)[2]) /\ IsSome(AdxGet(tr.adx)[3])
    /\ obs.n >= 28
    /\ tr.mode = "Backtest" => obs.n > obs.hist

\* a live session that loaded 26 candles: no value on its first tick, a Buy on the 28th candle
C4_Witness ==
  /\ tr.mode = "Live" /\ obs.hist = 26
  /\ obs.n = 28 /\ obs.out = <<"Buy">>

\* a replay candle that opens before start_time with every indicator value available and
\* the entry rule holding, on which nothing is bought
C4_WitnessReplay ==
  /\ tr.mode = "Backtest" /\ obs.hist = 28 /\ obs.n = 28 /\ Ready(tr)
  /\ BacktestBbLowerCondition(tr, Kline) /\ obs.out = <<>>

\* C5: an Sma of period N is unavailable after each of the first N-1 feeds; after the
\* k-th feed, k >= N, its value is the arithmetic mean of the last N samples fed (rounded
\* down to the resolution unit), so a constant input v gives exactly v from the N-th feed on.
C5_SmaMeanOfLastN ==
  /\ Len(smaWin) < sma.period => SmaGet(sma) = None
  /\ Len(smaWin) = sma.period =>
       /\ IsSome(SmaGet(sma))
       /\ LET m == Unwrap(SmaGet(sma))
          IN  /\ m * sma.period <= SeqSum(smaWin)
              /\ SeqSum(smaWin) < (m + 1) * sma.period
       /\ (\A i \in 1..Len(smaWin) : smaWin[i] = smaWin[1]) => SmaGet(sma) = Some(smaWin[1])

\* a period-3 average after a feed that overwrote the oldest slot of a full buffer
C5_Witness ==
  /\ sma.period = 3 /\ sma.index = 1
  /\ smaWin = <<FromInt(2), FromInt(0), FromInt(1)>> /\ SmaGet(sma) = Some(FromInt(1))

\* the samples of a window as integers
Whole(w) == [i \in 1..Len(w) |-> w[i] \div Scale]

\* C6: a StandardDeviation of period N is unavailable after each of the first N-1 feeds;
\* after the k-th feed, k >= N, its value r is the population deviation of the last N
\* samples: r^2 is their mean squared deviation, divisor N, to within two resolution
\* units of r.  With S the sum and Q the sum of squares of the N samples, N^2 times
\* the mean squared deviation is N*Q - S^2.
C6_StdPopulationOfLastN ==
  /\ Len(sdWin) < sd.period => StdGet(sd) = None
  /\ Len(sdWin) = sd.period =>
       /\ IsSome(StdGet(sd))
       /\ LET r == Unwrap(StdGet(sd))
              n == sd.period
              w == Whole(sdWin)
              q == n * SeqSumSq(w) - SeqSum(w) * SeqSum(w)
          IN  /\ IsFinite(r) /\ r >= 0
              /\ r >= 2 => (r - 2) * (r - 2) * n * n <= q * Scale * Scale
              /\ q * Scale * Scale <= (r + 2) * (r + 2) * n * n
              /\ q = 0 => r = 0

\* samples 1, 2, 0 in a period-3 window that has wrapped: deviation sqrt(2/3) = 0.8164..
C6_Witness ==
  /\ sd.period = 3 /\ sd.index = 1
  /\ sdWin = <<FromInt(1), FromInt(2), FromInt(0)>>
  /\ Unwrap(StdGet(sd)) \in 814..818

\* C7: after every feed of values strictly between the sentinels, Maximum::get() is the
\* maximum and Minimum::get() the minimum of the last min(P, feeds so far) samples.
C7_RollingExtremes ==
  extWin # <<>> =>
    /\ MaxGet(mx) = Some(SeqMax(extWin))
    /\ MinGet(mn) = Some(SeqMin(extWin))

\* a period-3 window that has wrapped and dropped its largest sample: slot 0, which held
\* the maximum, was overwritten by a smaller value and the maximum is now in slot 1
C7_Witness ==
  /\ mx.period = 3 /\ mx.cur_index = 1 /\ mx.max_index = 1
  /\ mx.values = (0 :> 0 @@ 1 :> FromInt(1) @@ 2 :> 0)
  /\ extWin = <<FromInt(1), 0, 0>>

\* C8: both setup counts of a TdSeq are between 0 and 9, at most one of them is nonzero,
\* and buy_perfect() and sell_perfect() are never both true.
C8_TdCountsBounded ==
  /\ td.buy_setup_count \in 0..9
  /\ td.sell_setup_count \in 0..9
  /\ td.buy_setup_count = 0 \/ td.sell_setup_count = 0
  /\ ~(TdBuyPerfect(td) /\ TdSellPerfect(td))

\* a completed buy setup whose flag is set
C8_Witness == TdBuyPerfect(td)

\* the four candles before a feed are tdWin, the candle fed is the last of tdWin'
TdFed == tdWin'[Len(tdWin')]

\* C9: the counts do not change on the first four feeds. On every later feed, a close
\* below the close four feeds earlier adds one to the buy count (9 becomes 1) and leaves
\* the sell count 0; any other close adds one to the sell count (9 becomes 1) and leaves
\* the buy count 0. So a run changes direction only on a feed that contradicts it, which
\* sets its count to 0 and the opposite count to 1.
C9_Step ==
  LET b == td.buy_setup_count
      s == td.sell_setup_count
  IN  IF Len(tdWin) < 4
      THEN /\ td'.buy_setup_count = 0 /\ b = 0
           /\ td'.sell_setup_count = 0 /\ s = 0
      ELSE IF tdWin[1].close > TdFed.close
      THEN /\ td'.buy_setup_count = (IF b = 9 THEN 1 ELSE b + 1)
           /\ td'.sell_setup_count = 0
           /\ s > 0 => td'.buy_setup_count = 1
      ELSE /\ td'.sell_setup_count = (IF s = 9 THEN 1 ELSE s + 1)
           /\ td'.buy_setup_count = 0
           /\ b > 0 => td'.sell_setup_count = 1

C9_TdRunCounting == [][C9_Step]_vars

\* a buy run that has continued twice
C9_Witness == td.buy_setup_count = 3 /\ td.sell_setup_count = 0 /\ Len(tdWin) = 4

\* the flag of a completed setup, from the last four candles fed (the 6th to 9th candle)
FlagOfLastFour(w, field, less) ==
  LET sixth   == w[1][field]
      seventh == w[2][field]
      eighth  == w[3][field]
      ninth   == w[4][field]
  IN  IF less
      THEN (eighth < sixth /\ eighth < seventh) \/ (ninth < sixth /\ ninth < seventh)
      ELSE (eighth > sixth /\ eighth > seventh) \/ (ninth > sixth /\ ninth > seventh)

\* C10: the perfect flag is evaluated on exactly the feeds on which a count becomes 9
\* (from 8), from that feed's last four candles; on every other feed it keeps its value;
\* a count of 9 is reset on the following feed. So buy_perfect() / sell_perfect() hold
\* only right after the feed that completed the setup and show that feed's evaluation.
C10_Step ==
  /\ td'.buy_setup_count = 9 =>
       /\ td.buy_setup_count = 8
       /\ td'.perfect = FlagOfLastFour(tdWin', "low", TRUE)
  /\ td'.sell_setup_count = 9 =>
       /\ td.sell_setup_count = 8
       /\ td'.perfect = FlagOfLastFour(tdWin', "high", FALSE)
  /\ (td'.buy_setup_count # 9 /\ td'.sell_setup_count # 9) => td'.perfect = td.perfect
  /\ td.buy_setup_count = 9 => td'.buy_setup_count \in {0, 1}
  /\ td.sell_setup_count = 9 => td'.sell_setup_count \in {0, 1}
  /\ TdBuyPerfect(td') => FlagOfLastFour(tdWin', "low", TRUE)
  /\ TdSellPerfect(td') => FlagOfLastFour(tdWin', "high", FALSE)

C10_TdPerfectFresh == [][C10_Step]_vars

\* a completed sell setup whose flag is set
C10_Witness == TdSellPerfect(td)

(***************************************************************************)
(* Claims on the error document                                            *)
(***************************************************************************)

\* C11 as stated: whatever the code c, the message m and the order of the two
\* fields, from_json returns code = c and message = m
C11_AsStated ==
  ej.pc = "done" => ej.res = [pc |-> "ok", code |-> ej.c, message |-> ej.m]

\* the part of C11 the code does satisfy: a message holding neither a comma
\* nor a closing brace is extracted, with its code, in either field order
C11_PlainMessage ==
  (ej.pc = "done" /\ \A k \in 1..Len(ej.m) : ej.m[k] \notin {",", "}"})
    => ej.res = [pc |-> "ok", code |-> ej.c, message |-> ej.m]

\* a message with a comma, message first: the document is not extracted
C11_Witness ==
  /\ ej.pc = "done" /\ ej.order = "msg_first" /\ ej.m = <<"a", ",">>
  /\ ej.res.pc = "panic"

(***************************************************************************)
(* Claims on the array parsers                                             *)
(***************************************************************************)
Column(series, field) == [k \in 1..Len(series) |-> series[k][field]]

\* C12: the text form of a candle series parsed back by parse_kline_body gives
\* the five columns of the series, and parsed back by Kline::parse_2d_array
\* gives its candles, one per candle and in order, for any number of candles
C12_ArrayRoundTrip ==
  /\ (kp.fn = "parse_kline_body" /\ KpDone) =>
       KlinesOf(kp.s) =
         [pc |-> "ok",
          open_time |-> [k \in 1..Len(kp.series) |-> TimestampMillis(kp.series[k].open_time)],
          open |-> Column(kp.series, "open"), high |-> Column(kp.series, "high"),
          low |-> Column(kp.series, "low"), close |-> Column(kp.series, "close")]
  /\ (kp.fn = "parse_2d_array" /\ KpDone) =>
       kp.rows = [k \in 1..Len(kp.series) |->
                    [pc |-> "ok", open_time |-> kp.series[k].open_time,
                     open |-> kp.series[k].open, high |-> kp.series[k].high,
                     low |-> kp.series[k].low, close |-> kp.series[k].close]]

\* two different candles parsed back by parse_kline_body
C12_Witness ==
  /\ kp.fn = "parse_kline_body" /\ KpDone /\ Len(kp.series) = 2
  /\ kp.series[1] # kp.series[2] /\ Len(kp.s.close) = 2

(***************************************************************************)
(* Claims on the field scanner                                             *)
(***************************************************************************)
CountOf(slice, lo, hi, ch) == Cardinality({j \in lo..hi : slice[j] = ch})

\* byte p is the closer that matches the opener consumed before byte `from`:
\* the first closer with more closers than openers in slice[from..p]
MatchingCloser(slice, from, p, opener, closer) ==
  /\ p \in from..Len(slice) /\ slice[p] = closer
  /\ CountOf(slice, from, p, closer) = CountOf(slice, from, p, opener) + 1
  /\ \A q \in from..(p - 1) :
       slice[q] = closer => CountOf(slice, from, q, closer) <= CountOf(slice, from, q, opener)

\* byte p is the end of what skip_value(kind) is to consume from byte `from`
SkipEnd(slice, from, p, kind) ==
  CASE kind = "Object" -> MatchingCloser(slice, from, p, "{", "}")
    [] kind = "Array" -> MatchingCloser(slice, from, p, "[", "]")
    [] kind = "Other" -> /\ p \in from..Len(slice) /\ slice[p] = ","
                         /\ \A q \in from..(p - 1) : slice[q] # ","

Skipped == hs.op = "skip_value" /\ hs.st.pc # "loop"

C16_AsStated ==
  (Skipped /\ \A p \in 1..Len(hs.slice) : ~SkipEnd(hs.slice, 1, p, hs.kind))
    => hs.st.pc = "panic"

\* the part of C16 the code does satisfy: an array cut short is fatal
C16_ArrayOnly ==
  (Skipped /\ hs.kind = "Array"
     /\ \A p \in 1..Len(hs.slice) : ~SkipEnd(hs.slice, 1, p, hs.kind))
    => hs.st.pc = "panic"

\* an object cut short inside a nested object: skip_object returns
C16_Witness ==
  /\ Skipped /\ hs.kind = "Object" /\ hs.slice = <<"a", "{", "a">>
  /\ hs.st.pc = "ret" /\ hs.st.pos = 3

\* a quoted `name` in key position starts at byte j
KeyAt(slice, j, name) ==
  /\ j + Len(name) + 1 <= Len(slice)
  /\ slice[j] = Quote /\ slice[j + Len(name) + 1] = Quote
  /\ SubSeq(slice, j + 1, j + Len(name)) = name
  /\ j > 1 => slice[j - 1] \in {"{", ","}

\* objects and arrays opened less those closed in slice[from..j-1]
Depth(slice, from, j) ==
  CountOf(slice, from, j - 1, "{") + CountOf(slice, from, j - 1, "[")
    - CountOf(slice, from, j - 1, "}") - CountOf(slice, from, j - 1, "]")

\* byte j is a key `name` of the object the scan started in, at its depth
OwnKeyAt(slice, from, j, name) ==
  /\ KeyAt(slice, j, name)
  /\ Depth(slice, from, j) = 0
  /\ \A q \in from..j : Depth(slice, from, q) >= 0

\* C13 as stated: find_key(name) returns right after the closing quote of the
\* first key equal to name at the depth where the scan started, never a key
\* nested in an earlier value, never one outside the enclosing object
C13_AsStated ==
  (hs.op = "find_key" /\ hs.st.pc = "ret") =>
    \E j \in (hs.start + 1)..Len(hs.slice) :
      /\ OwnKeyAt(hs.slice, hs.start + 1, j, hs.key)
      /\ \A q \in (hs.start + 1)..(j - 1) : ~OwnKeyAt(hs.slice, hs.start + 1, q, hs.key)
      /\ hs.st.pos = j + Len(hs.key) + 1

\* the part of C13 the code does satisfy: the key find_key returns at is not
\* nested in the value of an earlier key
C13_NotNested ==
  (hs.op = "find_key" /\ hs.st.pc = "ret") =>
    /\ KeyAt(hs.slice, hs.st.pos - Len(hs.key) - 1, hs.key)
    /\ Depth(hs.slice, hs.start + 1, hs.st.pos) <= 0

\* find_key("k") started in {"a":1} returns in the sibling object {"k":"v"}
C13_Witness ==
  /\ hs.op = "find_key" /\ hs.st.pc = "ret"
  /\ hs.slice = <<"[", "{">> \o KeyA \o <<":", "1", "}", ",", "{">> \o KeyK
                   \o <<":", Quote, "v", Quote, "}", "]">>
  /\ hs.st.pos = 13

\* the pair key = value is a field of one of the sibling objects, at byte j
PairAt(slice, j, key, value) ==
  /\ KeyAt(slice, j, key) /\ Depth(slice, 1, j) = 2
  /\ j + Len(key) + Len(value) + 4 <= Len(slice)
  /\ slice[j + Len(key) + 2] = ":" /\ slice[j + Len(key) + 3] = Quote
  /\ SubSeq(slice, j + Len(key) + 4, j + Len(key) + Len(value) + 3) = value
  /\ slice[j + Len(key) + Len(value) + 4] = Quote

\* C14 as stated: on sibling objects find_pair(key, value) returns inside the
\* first object holding key = value, right after that value, wherever the key
\* stands among the fields of the object
C14_AsStated ==
  (hs.op = "find_pair" /\ hs.slice \in Documents /\ hs.st.pc # "loop") =>
    \A j \in 1..Len(hs.slice) :
      (/\ PairAt(hs.slice, j, hs.key, hs.value)
       /\ \A q \in 1..(j - 1) : ~PairAt(hs.slice, q, hs.key, hs.value))
        => hs.st.pc = "ret" /\ hs.st.pos = j + Len(hs.key) + Len(hs.value) + 4

\* the key of a field of a sibling object is the first key of its object
FirstInObject(slice, j) == slice[j - 1] = "{"

\* the part of C14 the code does satisfy: the first object holding the pair
\* as its first field is found, when no earlier object holds it further back
C14_FirstField ==
  (hs.op = "find_pair" /\ hs.slice \in Documents /\ hs.st.pc # "loop") =>
    \A j \in 1..Len(hs.slice) :
      (/\ PairAt(hs.slice, j, hs.key, hs.value) /\ FirstInObject(hs.slice, j)
       /\ \A q \in 1..(j - 1) : ~PairAt(hs.slice, q, hs.key, hs.value))
        => hs.st.pc = "ret" /\ hs.st.pos = j + Len(hs.key) + Len(hs.value) + 4

\* find_pair("k", "v") on [{"a":1,"k":"v"}] runs off the end of the buffer
C14_Witness ==
  /\ hs.op = "find_pair" /\ hs.st.pc = "panic"
  /\ hs.slice = <<"[", "{">> \o KeyA \o <<":", "1", ",">> \o KeyK
                   \o <<":", Quote, "v", Quote, "}", "]">>

\* C17 as stated: find_key and find_pair end on every finite buffer, returning
\* or failing; no iteration of their loops repeats for ever
C17_AsStated == hs.st.pc # "spin"

\* the part of C17 the code does satisfy: find_key
C17_FindKeyEnds == hs.op = "find_key" => hs.st.pc # "spin"

\* find_pair on a buffer that ends right after the colon of the matching key
C17_Witness ==
  /\ hs.op = "find_pair" /\ hs.st.pc = "spin"
  /\ hs.slice = <<"[", "{">> \o KeyK \o <<":">>

(***************************************************************************)
(* Claims on the live loop                                                 *)
(***************************************************************************)

\* C18 as stated: the timeout of every wait is the time left until the candle
\* closes, between 0 and one interval, also when the clock has passed it
C18_AsStated ==
  /\ TimedOut(lv.timeout, IntervalMs)
  /\ lv.pc = "recv" => lv.timeout = <<0, 0, 0, IF lv.close_time > lv.since
                                                THEN lv.close_time - lv.since ELSE 0>>

\* the part of C18 the code does satisfy: a wait begun before the candle
\* closes gets the time left, at most one interval
C18_InTime ==
  (lv.pc = "recv" /\ lv.since <= lv.close_time) =>
    /\ lv.timeout = <<0, 0, 0, lv.close_time - lv.since>>
    /\ lv.close_time - lv.since <= IntervalMs

\* a wait begun after the close: the timeout is 2^64 - 1
C18_Witness ==
  /\ lv.pc = "recv" /\ lv.since = lv.close_time + 1
  /\ lv.timeout = <<Limb - 1, Limb - 1, Limb - 1, Limb - 1>>

\* C19: once the task has read the quit key the loop ends, by its exit or by
\* the failure of a call in flight; it has joined the task when it exits;
\* until the loop takes it at a wait the message stays in the channel
C19_CancelExits ==
  /\ [](lv.pc = "exited" => lv.joined /\ lv.aux = "done")
  /\ []((lv.quit /\ lv.pc \notin {"join", "exited", "panic"}) => lv.chan > 0)
  /\ (lv.quit ~> lv.pc \in {"exited", "panic"})

\* the key was read while a call of a tick was in flight, and the loop exited
C19_Witness ==
  /\ lv.pc = "exited" /\ lv.joined /\ lv.quit_at \in {"poll", "order", "balance"}

\* C20: the loop leaves only from its wait: never with an order sent and the
\* position not yet recorded
C20_ExitOnlyBetweenTicks ==
  /\ lv.pc \in {"join", "exited"} => ~lv.pending
  /\ lv.pc \in {"order", "balance"} => lv.pending

\* the key was read between the order and the balance, the position was
\* recorded and the loop exited afterwards
C20_Witness ==
  /\ lv.pc = "exited" /\ lv.quit_at = "balance" /\ lv.holding /\ ~lv.pending


\* C21: an Ema of period P with smoothing constant a (2/(P+1) by default, or the explicit
\* one) is unavailable after each of the first P-1 feeds; after the P-th feed its value is
\* the arithmetic mean of the first P samples (rounded down to the resolution unit); every
\* later feed of a sample s turns the value v into v + a*(s - v); once available it stays
\* available.
C21_State ==
  LET n == Len(ind.fed)
      p == ind.obj.period
  IN  /\ ind.obj.alpha = ind.alpha
      /\ n < p => EmaGet(ind.obj) = None
      /\ n >= p => IsSome(EmaGet(ind.obj))
      /\ n = p => LET m == Unwrap(EmaGet(ind.obj))
                  IN  m * p <= SeqSum(ind.fed) /\ SeqSum(ind.fed) < (m + 1) * p

C21_Step ==
  Len(ind.fed) >= ind.obj.period =>
    LET v == Unwrap(EmaGet(ind.obj))
        x == ind'.fed[Len(ind'.fed)]
    IN  EmaGet(ind'.obj) = Some(FAdd(v, FMul(ind.alpha, FSub(x, v))))

C21_EmaSeedThenSmooth == [](C21_State) /\ [][C21_Step]_vars

\* period 3 with the explicit constant one half: seeded with the mean 2.0 of 3, 0, 3 and
\* then moved half way towards the sample 1.0
C21_Witness ==
  /\ ind.obj.period = 3 /\ ind.alpha = FDiv(FromInt(1), FromInt(2))
  /\ ind.fed = <<FromInt(3), FromInt(0), FromInt(3), FromInt(1)>>
  /\ EmaGet(ind.obj) = Some(1500)


\* C22: a BollingerBand of period N and multiplier m >= 0 is unavailable after each of the
\* first N-1 feeds; from the N-th feed on get() is (basis, upper, lower) with basis the
\* mean of the last N closes (rounded down to the resolution unit), upper = basis + m*sigma
\* and lower = basis - m*sigma, sigma being the population deviation of the same N closes
\* (to within two resolution units, as in C6); so lower <= basis <= upper and
\* upper - basis = basis - lower = dev().
C22_Bands ==
  LET n == Len(ind.fed)
      p == ind.obj.typical_price.period
      w == LastN(ind.fed, p)
  IN  /\ ind.obj.m = ind.alpha
      /\ n < p => BBGet(ind.obj) = None /\ BBDev(ind.obj) = None
      /\ n >= p =>
           /\ IsSome(BBGet(ind.obj)) /\ IsSome(BBDev(ind.obj))
           /\ LET basis == Unwrap(BBGet(ind.obj))[1]
                  upper == Unwrap(BBGet(ind.obj))[2]
                  lower == Unwrap(BBGet(ind.obj))[3]
                  sigma == Unwrap(StdGet(ind.obj.dev))
                  q == p * SeqSumSq(Whole(w)) - SeqSum(Whole(w)) * SeqSum(Whole(w))
              IN  /\ basis * p <= SeqSum(w) /\ SeqSum(w) < (basis + 1) * p
                  /\ sigma >= 0
                  /\ sigma >= 2 => (sigma - 2) * (sigma - 2) * p * p <= q * Scale * Scale
                  /\ q * Scale * Scale <= (sigma + 2) * (sigma + 2) * p * p
                  /\ upper = basis + (ind.alpha * sigma) \div Scale
                  /\ lower = basis - (ind.alpha * sigma) \div Scale
                  /\ lower <= basis /\ basis <= upper
                  /\ upper - basis = Unwrap(BBDev(ind.obj))
                  /\ basis - lower = Unwrap(BBDev(ind.obj))

\* period 2, multiplier 2.0, after a third close: the window 3, 1 has mean 2.0 and
\* deviation 1.0, so the bands are 4.0 and 0.0
C22_Witness ==
  /\ ind.obj.typical_price.period = 2 /\ ind.alpha = FromInt(2)
  /\ ind.fed = <<FromInt(0), FromInt(3), FromInt(1)>>
  /\ BBGet(ind.obj) = Some(<<FromInt(2), FromInt(4), FromInt(0)>>)


\* C23: for an Adx of period P, +DI and -DI of get() are available exactly from the P-th
\* feed on and the trend-strength value exactly from feed 2P-1 on; the outer average has
\* been fed nothing before the P-th feed, and one value per feed from then on.
C23_AdxAvailability ==
  LET n == ind.feeds
      p == ind.period
      g == AdxGet(ind.obj)
  IN  /\ IsSome(g[2]) <=> n >= p
      /\ IsSome(g[3]) <=> n >= p
      /\ IsSome(g[1]) <=> n >= 2 * p - 1
      /\ n < p => ind.obj.dx = EmaNewWithConstant(p, FDiv(FromInt(1), FromInt(p)))
      /\ (n >= p /\ n < 2 * p - 1) => ind.obj.dx.index = n - p + 1

\* period 3: after five feeds all three values are there, the outer average just seeded
C23_Witness ==
  /\ ind.period = 3 /\ ind.feeds = 5
  /\ IsSome(AdxGet(ind.obj)[1]) /\ IsSome(AdxGet(ind.obj)[2]) /\ IsSome(AdxGet(ind.obj)[3])
  /\ ind.obj.dx.index = 3


\* C30: StochRsi never divides by a max - min that is zero: whenever a call fed a
\* normalised value to the 3-sample average, the rolling maximum and the rolling minimum
\* differed; in particular nothing is fed on the first call on which the
\* relative-strength value is available.
C30_AsStated ==
  /\ IsSome(ind.divided) => FSub(Unwrap(ind.divided)[2], Unwrap(ind.divided)[3]) # 0
  /\ ind.feeds = ind.period => ind.obj.value = SmaNew(3)

\* period 2, second call: the relative strength has just become available, both rolling
\* extremes hold that one value, and the quotient 0/0 went into the average
C30_Witness ==
  /\ ind.period = 2 /\ ind.feeds = 2
  /\ IsSome(ind.divided) /\ Unwrap(ind.divided)[1] = FromInt(100)
  /\ Unwrap(ind.divided)[2] = Unwrap(ind.divided)[1]
  /\ Unwrap(ind.divided)[3] = Unwrap(ind.divided)[1]
  /\ IsNan(ind.obj.value.data[0])
  /\ ind.obj.value.index = 1


\* C27: the single-candle parsers return a candle only if all five fields were parsed
\* from numeric tokens of the payload: on a payload with fewer than five a call ends in
\* a panic, and the live loop feeds its indicators nothing.
C27_AsStated ==
  (fd.pc # "call" /\ fd.tokens < 5) => (fd.pc = "panic" /\ fd.fed = <<>>)

\* the empty array: from_bytes returned its initial values, and the close 0.0 went into
\* the band and the candle into the Adx
C27_Witness ==
  /\ fd.fn = "from_bytes" /\ fd.bytes = <<"[", "]">> /\ fd.pc = "fed"
  /\ fd.kline = Some(FromBytesNew)
  /\ fd.fed = <<0>>
  /\ fd.bb.typical_price.data[0] = 0 /\ fd.adx.atr.index = 1


\* the entry rule of the claim: the close is below the lower band, the band being
\* lowered by half the band deviation unless the trend strength is below 15
DipEntryRule ==
  \/ FLt(AdxVal(tr), FromInt(15)) /\ FLt(Kline.close, BbLower(tr))
  \/ ~FLt(AdxVal(tr), FromInt(15)) /\ FLt(Kline.close, FSub(BbLower(tr), HalfDev(tr)))

\* C25: from Flat, replay and live alike produce a dip-entry Buy on a candle exactly
\* when its close is below the lower Bollinger band, lowered by half the band deviation
\* when trend strength exceeds the threshold: an evaluated candle of a Flat position
\* produces a Buy exactly when that rule or the trend entry rule holds.
C25_AsStated ==
  (Evaluated /\ obs.base_before = 0) =>
    (Produced("Buy") <=> (DipEntryRule \/ LiveMovingAverageCondition(tr, Kline)))

\* a replay candle of a Flat position whose low, but not its close, is below the
\* lowered band, at a trend strength below 15: replay buys where the rule, and live,
\* do not
C25_Witness ==
  /\ tr.mode = "Backtest" /\ Evaluated /\ obs.base_before = 0
  /\ FLt(AdxVal(tr), FromInt(15))
  /\ ~DipEntryRule /\ ~LiveBbLowerCondition(tr, Kline)
  /\ FLt(Kline.low, FSub(BbLower(tr), HalfDev(tr))) /\ ~FLt(Kline.close, BbLower(tr))
  /\ BacktestBbLowerCondition(tr, Kline)
  /\ obs.out = <<"Buy">>

\* a replay candle of a Flat position that closes below the lowered band while the
\* trend strength is 0/0: the rule holds, live would buy, replay does not
C25_WitnessUndefined ==
  /\ tr.mode = "Backtest" /\ Evaluated /\ obs.base_before = 0
  /\ IsNan(AdxVal(tr))
  /\ DipEntryRule /\ LiveBbLowerCondition(tr, Kline)
  /\ ~BacktestBbLowerCondition(tr, Kline)
  /\ obs.out = <<>>

\* C29: the entry reference net is the quote amount spent by the last Buy for as long as
\* the position is held, and every Sell computes its return against the reference of a
\* Buy that precedes it in the same session, also in a live session that starts with a
\* base balance.
C29_AsStated ==
  /\ (tr.base # 0 /\ tr.pc = "run" /\ obs.orders # <<>>) =>
       /\ obs.orders[Len(obs.orders)] = "Buy"
       /\ IsFinite(tr.net) /\ tr.net > 0
  /\ Produced("Sell") =>
       /\ Len(obs.orders) >= 2
       /\ obs.orders[Len(obs.orders) - 1] = "Buy"

\* a live session that started with a base balance sells it as its first order: the
\* return was computed against the initial net of 0.0 and is infinite
C29_Witness ==
  /\ tr.mode = "Live" /\ tr.pc = "run"
  /\ obs.orders = <<"Sell">> /\ obs.out = <<"Sell">> /\ obs.base_before # 0
  /\ tr.net = PosInf


\* the return of the position on the candle against the entry reference
ConditionalNet == FSub(FDiv(FMul(obs.base_before, Kline.close), obs.net_before), FromInt(1))

\* the exit rule of the claim
ExitRule ==
  \/ /\ FGt(Kline.close, Mean(tr))
     /\ ~IsNan(ConditionalNet) /\ ConditionalNet >= 0
  \/ FGt(Kline.close, BbUpper(tr))

\* C26: replay and live alike produce a Sell for a position entered by dip entry on a
\* candle exactly when the close is above the basis and the net return against the
\* entry reference is non-negative, or the close is above the upper band.
C26_AsStated ==
  (Evaluated /\ obs.base_before # 0 /\ obs.entry = Some("DipEntry")) =>
    (Produced("Sell") <=> ExitRule)

\* a live position bought by dip entry, on a candle that closes above the basis but not
\* above the upper band with a return that is not negative: nothing is sold
C26_Witness ==
  /\ tr.mode = "Live" /\ tr.pc = "run" /\ Evaluated
  /\ obs.orders = <<"Buy">> /\ obs.entry = Some("DipEntry") /\ obs.base_before # 0
  /\ FGt(Kline.close, Mean(tr)) /\ ~FGt(Kline.close, BbUpper(tr))
  /\ ConditionalNet >= 0 /\ IsFinite(ConditionalNet)
  /\ obs.out = <<>>


\* the bytes a run with these parameters writes when nothing fails
RECURSIVE FreshIters(_, _, _)
FreshIters(start_time, end_time, i) ==
  IF i >= Iteration(start_time, end_time) THEN <<>>
  ELSE IterResponse(start_time, end_time, i) \o FreshIters(start_time, end_time, i + 1)
FreshBytes(start_time, end_time) ==
  WarmResponse(start_time) \o FreshIters(start_time, end_time, 0)

\* C24: a run of get_required_data that finds the cache file of its key sends no
\* request, and the series it returns is the series a fresh fetch with its parameters
\* returns, also when an earlier run that created the file failed part-way.
C24_AsStated ==
  (cf.pc = "done" /\ cf.cached) =>
    /\ cf.requests = 0
    /\ cf.loaded = Some(ParseKlineBody(FreshBytes(cf.start_time, cf.end_time)))

\* the second run with the same parameters, after a first one whose first request
\* failed: the file exists and is empty, and the run returns an empty series
C24_Witness ==
  /\ cf.runs = 2 /\ cf.pc = "done" /\ cf.cached /\ cf.requests = 0
  /\ cf.file = Some(<<>>)
  /\ Unwrap(cf.loaded).close = <<>>
  /\ ParseKlineBody(FreshBytes(cf.start_time, cf.end_time)).close # <<>>


\* a DateTime in milliseconds
Millis(time) == time.secs * 1000 + time.millis

FromBuffer(i) ==
  IF i.kind = "Sma" THEN SmaMean(i.obj.data, i.obj.period)
  ELSE StdDev(i.obj.data, i.obj.period)

\* C31: once an Sma or a StandardDeviation of period N has been fed N samples, the value
\* it reports after every feed is the one computed from the buffer it holds after that
\* feed, whatever the samples were, NaN included: never a value left by an earlier feed.
C31_AsStated ==
  Len(ind.fed) >= ind.obj.period => ind.obj.value = Some(FromBuffer(ind))

\* the buffer was filled, a NaN went through it, every slot holds a number again and
\* the value reported is still the NaN of an earlier feed
C31_Witness ==
  /\ Len(ind.fed) > ind.obj.period
  /\ \A j \in 0..(ind.obj.period - 1) : IsFinite(ind.obj.data[j])
  /\ ind.obj.value = Some(NaN)
  /\ ~IsNan(ind.fed[Len(ind.fed)])

(***************************************************************************)
(* C32                                                                     *)
(***************************************************************************)
C32_Step ==
  ind' # ind =>
    ind'.obj.dx = IF IsSome(ind'.osc) THEN EmaNext(ind.obj.dx, Unwrap(ind'.osc))
                  ELSE ind.obj.dx

\* the value is no number: unavailable while the outer average is not seeded, NaN after
C32_State ==
  /\ (IsSome(ind.osc) /\ (FAdd(AdxGet(ind.obj)[2][1], AdxGet(ind.obj)[3][1]) = 0
                          \/ Unwrap(AtrGet(ind.obj.atr)) = 0))
       => ind.osc = Some(NaN)
  /\ ind.poisoned =>
       AdxGet(ind.obj)[1] = IF ind.obj.dx.index >= ind.period THEN Some(NaN) ELSE None

\* C32 as stated: from the feed on which the oscillator value fed is NaN, the first
\* component of get() is NaN.
C32_AsStated == ind.poisoned => AdxGet(ind.obj)[1] = Some(NaN)

\* C32, amended: on every feed of an Adx on which the three inner averages are available
\* the outer average is fed the oscillator value of that feed, exactly once, and on no
\* other feed; when +DI + -DI = 0 or the average true range is 0 the value fed is NaN,
\* and from then on the first component of get() never is a number again: it stays
\* unavailable until the outer average is seeded and is NaN on that feed and on every
\* later one.
C32_AdxNanNeverRecovers == [](C32_State) /\ [][C32_Step]_vars

\* a NaN was fed on an earlier feed, the oscillator value of this feed is a number, and
\* the value reported is NaN
C32_Witness ==
  /\ ind.poisoned
  /\ IsSome(ind.osc) /\ IsFinite(Unwrap(ind.osc))
  /\ ind.obj.dx.index = ind.period /\ ind.feeds = 2 * ind.period
  /\ AdxGet(ind.obj)[1] = Some(NaN)

(***************************************************************************)
(* C33                                                                     *)
(***************************************************************************)
\* C33: on every Adx feed +DM and -DM are both >= 0 and at most one of them is not 0:
\* +DM is the up-move high - prevHigh when that is positive and strictly greater than the
\* down-move prevLow - low, and 0 otherwise; -DM is the down-move when that is positive
\* and strictly greater than the up-move, and 0 otherwise; equal moves give 0 for both.
C33_DirectionalMovement ==
  ind.feeds > 0 =>
    LET up   == ind.k.high - ind.prev.high
        down == ind.prev.low - ind.k.low
    IN  /\ ind.pdm >= 0 /\ ind.mdm >= 0
        /\ ind.pdm = 0 \/ ind.mdm = 0
        /\ ind.pdm = (IF up > 0 /\ up > down THEN up ELSE 0)
        /\ ind.mdm = (IF down > 0 /\ down > up THEN down ELSE 0)
        /\ up = down => (ind.pdm = 0 /\ ind.mdm = 0)

\* an outside bar whose high rose by as much as its low fell: neither movement counts
C33_Witness ==
  /\ ind.feeds > 0
  /\ ind.k.high - ind.prev.high = FromInt(1)
  /\ ind.prev.low - ind.k.low = FromInt(1)
  /\ ind.pdm = 0 /\ ind.mdm = 0

(***************************************************************************)
(* C34                                                                     *)
(***************************************************************************)
\* C34: a feed of TdSeq whose close equals the close four feeds earlier is counted like
\* a feed whose close is strictly below it: the buy count goes up by one (9 becomes 1)
\* and the sell count is 0.
C34_Step ==
  (Len(tdWin) = 4 /\ tdWin[1].close = TdFed.close) =>
    /\ td'.buy_setup_count = (IF td.buy_setup_count = 9 THEN 1 ELSE td.buy_setup_count + 1)
    /\ td'.sell_setup_count = 0

C34_AsStated == [][C34_Step]_vars

\* the close just fed equals the close four feeds earlier, which is still in the slot
\* the next feed overwrites, and the feed was counted for the sell setup
C34_Witness ==
  /\ Len(tdWin) = 4
  /\ ~IsNan(td.closes[td.index])
  /\ td.closes[td.index] = tdWin[4].close
  /\ td.sell_setup_count >= 1 /\ td.buy_setup_count = 0

(***************************************************************************)
(* C35                                                                     *)
(***************************************************************************)
\* C35: for every position of the cursor, a feed of TdSeq from the fifth on compares the
\* close fed with the close fed exactly four feeds earlier: the slot it reads holds that
\* close, and the buy count is positive afterwards exactly when that close is above the
\* one fed. The slots read as the 6th, 7th, 8th and 9th candle hold the candles fed
\* three, two, one and zero feeds before, and the flag of a completed setup is the one
\* of those four candles.
C35_Step ==
  Len(tdWin) = 4 =>
    LET prev == (td.index + 1) % 5
    IN  /\ td.closes[prev] = tdWin[1].close
        /\ td'.closes[prev] = tdWin[1].close
        /\ td'.closes[td.index] = TdFed.close
        /\ td'.buy_setup_count > 0 <=> tdWin[1].close > TdFed.close
        /\ td'.sell_setup_count > 0 <=> tdWin[1].close <= TdFed.close
        /\ \A j \in 1..4 :
             /\ td'.lows[(prev + j) % 5] = tdWin'[j].low
             /\ td'.highs[(prev + j) % 5] = tdWin'[j].high
        /\ td'.buy_setup_count = 9 => td'.perfect = FlagOfLastFour(tdWin', "low", TRUE)
        /\ td'.sell_setup_count = 9 => td'.perfect = FlagOfLastFour(tdWin', "high", FALSE)

C35_TdWindowIndexing == [][C35_Step]_vars

\* a sell setup completed by a feed written to the last slot, the cursor wrapped to 0,
\* with the flag set by the 8th or 9th high
C35_Witness ==
  /\ td.sell_setup_count = 9 /\ td.perfect /\ td.index = 0
  /\ td.highs[4] = tdWin[4].high /\ td.highs[1] = tdWin[1].high

(***************************************************************************)
(* C36                                                                     *)
(***************************************************************************)
\* what the truncations of the fixed-point operations can add up to after n feeds
Rounding(n) == 2 * n

\* C36: after every feed an Atr of period P is available exactly when
\* Ema::new_with_constant(P, 1/P) fed the true range max(high, prevClose) -
\* min(low, prevClose) is, and has the same value up to the rounding of the arithmetic;
\* the true range and the value of the Atr are never negative, whatever numbers are fed.
C36_AtrIsWilderAverage ==
  /\ IsSome(AtrGet(ind.atr)) <=> IsSome(EmaGet(ind.ema))
  /\ IsSome(AtrGet(ind.atr)) <=> ind.feeds >= ind.period
  /\ ind.tr >= 0
  /\ IsSome(AtrGet(ind.atr)) =>
       /\ Unwrap(AtrGet(ind.atr)) >= 0
       /\ FAbs(FSub(Unwrap(AtrGet(ind.atr)), Unwrap(EmaGet(ind.ema)))) <= Rounding(ind.feeds)

\* period 2 after four feeds: seeded, then smoothed twice, the last true range differing
\* from the average
C36_Witness ==
  /\ ind.period = 2 /\ ind.feeds = 4
  /\ IsSome(AtrGet(ind.atr))
  /\ Unwrap(AtrGet(ind.atr)) # ind.tr
  /\ Unwrap(AtrGet(ind.atr)) > 0

(***************************************************************************)
(* C37                                                                     *)
(***************************************************************************)
\* C37: on every evaluation of a candle with low <= close, the deviation of the band
\* being non-negative, the dip-entry predicate and the mean-reversion-entry predicate are
\* not both true, for the pair of predicates of the replay loop and for the pair of the
\* live loop; so a Buy has one entry kind.
C37_EntryKindsExclusive ==
  (dec.evaluated /\ dec.k.low <= dec.k.close /\ ~FLt(Unwrap(BBDev(dec.t.bb)), 0)) =>
    /\ ~(dec.dip_replay /\ dec.ma_replay)
    /\ ~(dec.dip_live /\ dec.ma_live)

\* a live dip entry at a trend strength above 25, where the trend strength does not tell
\* the two predicates apart and the directional averages allow a mean-reversion entry
C37_Witness ==
  /\ dec.evaluated /\ dec.k.low <= dec.k.close
  /\ FGt(AdxVal(dec.t), FromInt(25)) /\ FGt(PdiVal(dec.t), MdiVal(dec.t))
  /\ Unwrap(BBDev(dec.t.bb)) > 0
  /\ dec.dip_live /\ ~dec.ma_live

\* a mean-reversion entry in both loops
C37_WitnessMeanReversion ==
  /\ dec.evaluated /\ dec.k.low <= dec.k.close
  /\ dec.ma_live /\ dec.ma_replay /\ ~dec.dip_live /\ ~dec.dip_replay

(***************************************************************************)
(* C38                                                                     *)
(***************************************************************************)
\* the input of the task has ended and no quit key was read
InputClosed == lv.aux = "done" /\ ~lv.quit

C38_State ==
  /\ lv.chan \in {0, 1}
  /\ lv.chan = 1 => lv.quit
  /\ InputClosed => lv.chan = 0
  /\ InputClosed => lv.pc # "exited"

C38_Step ==
  /\ lv'.chan > lv.chan => (lv.aux = "reading" /\ ~lv.quit /\ lv'.quit /\ lv'.aux = "sent")
  /\ (lv.quit /\ ~lv'.quit) => FALSE
  /\ (InputClosed /\ lv.pc = "top" /\ lv'.pc # "top") => lv'.pc = "panic"

\* C38: the task sends at most once and only when it has read the quit key; when its
\* input ends without that key it ends without sending, and a wait the main loop begins
\* after that fails with the fatal error of a disconnected channel instead of polling:
\* the loop then never exits normally and always ends in that fatal state.
C38_ClosedInputEndsLoop ==
  /\ [](C38_State)
  /\ [][C38_Step]_vars
  /\ (InputClosed ~> lv.pc = "panic")

\* after at least one tick the input has ended without a quit key, and the wait begun
\* after that, with time left until the candle closes, has failed
C38_Witness ==
  /\ InputClosed /\ lv.pc = "panic" /\ lv.chan = 0
  /\ lv.since = lv.now /\ lv.close_time > lv.now
  /\ lv.timeout = AsU64(lv.close_time - lv.now)
  /\ lv.close_time > StartTime(0, IntervalMs) + MaxStart

(***************************************************************************)
(* C39                                                                     *)
(***************************************************************************)
\* how many candles of a loaded series open at `ms`
OpensAt(klines, ms) ==
  Cardinality({j \in 1..Len(klines.open_time) : Millis(klines.open_time[j]) = ms})

\* C39: a replay that fetched its series has every candle that opens from start_time to
\* end_time exactly once, whatever the length of the range, also when the number of
\* intervals in the range is a multiple of the page size; no candle of the warm-up page
\* opens at or after start_time, and no candle is there twice.
C39_AsStated ==
  (cf.pc = "done" /\ ~cf.cached) =>
    /\ \A n \in (cf.start_time \div MinuteMillis)..(cf.end_time \div MinuteMillis) :
         OpensAt(Unwrap(cf.loaded), n * MinuteMillis) = 1
    /\ \A n \in 0..ExLast : OpensAt(Unwrap(cf.loaded), n * MinuteMillis) <= 1

\* a fetched range of as many intervals as a page has candles: the candle that opens at
\* end_time is missing, the one before it is there
C39_Witness ==
  /\ cf.pc = "done" /\ ~cf.cached
  /\ DataCount(cf.start_time, cf.end_time) = Limit
  /\ cf.requests = 2
  /\ OpensAt(Unwrap(cf.loaded), cf.end_time) = 0
  /\ OpensAt(Unwrap(cf.loaded), cf.end_time - MinuteMillis) = 1

(***************************************************************************)
(* C40                                                                     *)
(***************************************************************************)
\* C40: the Sma and the StandardDeviation of a BollingerBand are fed together and move
\* together: after every feed they have the same cursor and are available or not
\* together, from the feed that fills the period on; so dev() is available in exactly
\* the states in which get() is, and bb.dev().unwrap() after get() returned a value
\* does not fail.
C40_DevAvailableWithGet ==
  /\ ind.obj.typical_price.index = ind.obj.dev.index
  /\ IsSome(SmaGet(ind.obj.typical_price)) <=> IsSome(StdGet(ind.obj.dev))
  /\ IsSome(BBDev(ind.obj)) <=> IsSome(BBGet(ind.obj))
  /\ IsSome(BBGet(ind.obj)) <=> Len(ind.fed) >= ind.obj.typical_price.period

\* the feed that fills a period of 3: both become available on it
C40_Witness ==
  /\ ind.obj.typical_price.period = 3 /\ Len(ind.fed) = 3
  /\ IsSome(BBGet(ind.obj)) /\ IsSome(BBDev(ind.obj))
  /\ ind.obj.dev.index = 0

====
